---- MODULE Spec2Model ----
(***************************************************************************)
(* Model of davidus-sk/accel_monitoring: the Collector                     *)
(* (src/accel/h3lis331dl.py) and the Event Processor                        *)
(* (src/accel/process_accel.py), which meet in the raw directory.           *)
(*                                                                         *)
(* Units.  Time is counted in sample intervals (SAMPLE_INTERVAL = 1);       *)
(* TicksPerSec of them make one second.  An acceleration is counted in      *)
(* digits of SENSITIVITY (0.098 g), so read_accel's "count * SENSITIVITY"   *)
(* is the count itself and 10.0 g is 5000/49 digits.                        *)
(***************************************************************************)
EXTENDS Integers, Sequences, FiniteSets, TLC

\* ------------------------------------------------------------------ constants
HEADER_SIZE == 22
RECORD_SIZE == 20
FILE_VERSION == 1
FULL_SCALE == 200
SAMPLE_RATE_HZ == 1000
SAMPLE_INTERVAL == 1
FILE_MAGIC == "ACLB"
SENSITIVITY == "0.098"
SENSORS == <<25, 24>>                \* 0x19 (label A), 0x18 (label B)

\* process_accel.py
ABS_THRESHOLD_G == 10
REL_MULTIPLIER == 4
RMS_WINDOW_SEC == 2
PRE_EVENT_SEC == 5
POST_EVENT_SEC == 5
MERGE_GAP_SEC == 10
\* a timestamp that int() cannot convert (NaN, +-inf), as a corrupt record may hold
NON_FINITE == -1

\* Scaled program constants (the program's value in the comment).
MAX_FILE_BYTES == 70                 \* 5 * 1024 * 1024
FLUSH_EVERY == 2                     \* 100: "if self.samples_in_file % 100 == 0"
MAX_CONSECUTIVE_ERRORS == 2          \* 50
TicksPerSec == 3                     \* 1000 sample intervals in a second
ACCEPT_CHECK_INTERVAL == 2           \* 100: check for a new client every N samples
WATCHDOG_INTERVAL == 2               \* 1000: ping every N samples
F32_MANT_BITS == 4                   \* 24: significant bits of a struct "f"
D_MANT_BITS == 12                    \* 53: significant bits of a Python float

\* Bounds of the exploration.
MaxLoops == 4                        \* successful ticks of one run
MaxFaults == 1                       \* file-system failures the environment injects in one run
MaxErrors == 2                       \* failed ticks and empty probes of one run
MaxLag == 1                          \* how late (in intervals) a tick may wake up
MaxClock == 14                       \* no tick and no probe starts after this time
MaxFed == 2                          \* how often the Processor may take up one and the same file
MaxFiles == 2                        \* files in the raw directory when the Processor starts alone
MaxRecords == 3                      \* records of one encoded file in the codec check
MaxSamples == 22                     \* samples handed to detect_events in the detection check
MaxRate == 2                         \* sample rates (Hz) of the detection check: 0..MaxRate
MaxClients == 2                      \* connections made to the live-stream port in one run
MaxDrops == 1                        \* failures of accept and of sendall in one run

ERROR_COOLDOWN_TICKS == (TicksPerSec + 1) \div 2      \* ERROR_COOLDOWN_SEC = 0.5
I2C_RESET_COOLDOWN_TICKS == 3 * TicksPerSec           \* I2C_RESET_COOLDOWN_SEC = 3.0

BusNumbers == {0, 256}               \* sys.argv[1]: any integer

VARIABLES
    i2c_bus,            \* AccelLogger.i2c_bus
    running,            \* AccelLogger.running
    phase,              \* where AccelLogger.run is: "start", "init", "running", "recovering",
                        \* "stopped" (run returned), "exited" (sys.exit(1))
    active_sensors,     \* AccelLogger.active_sensors (addresses, in SENSORS order)
    sensor_files,       \* AccelLogger.sensor_files: address -> SensorFile
    consecutive_errors, \* AccelLogger.consecutive_errors
    error_count,        \* AccelLogger.error_count (empty probes counted too, to bound them)
    loop_count,         \* run's loop_count
    clock,              \* the latest value time.time() returned
    next_sample_time,   \* run's next_sample_time
    tick,               \* the tick in progress: [i |-> index of the next sensor (0: none), ts |-> its timestamp]
    streaming,          \* run's `streaming`, as the tick in progress computed it
    tcp_port,           \* AccelLogger.tcp_port (0: None)
    smbus,              \* AccelLogger.bus: [cur |-> the handle it holds (0: None),
                        \*   opened |-> handles opened so far, closed |-> handles closed so far]
    live_stream,        \* AccelLogger.live_stream: <<>> (None) or <<the LiveStream>>
    net,                \* the peers of the live-stream port: [conns |-> what became of each
                        \*   connection and the lines it received, drops |-> failures so far]
    since_ping,         \* iterations of the sampling loop begun since the last watchdog_ping
    raw,                \* OUTPUT_DIR = RAW_DIR: file name -> file
    faults,             \* file-system failures injected so far
    env,                \* the environment of this run: [lag |-> how late every tick wakes up,
                        \*   shock_at |-> the tick (1-based, 0: none) in which the sensors see a shock,
                        \*   faults |-> file-system failures it may inject,
                        \*   errors |-> failed ticks and empty probes it may cause,
                        \*   dead |-> the sensor that stops answering for good (0: none)]
    prunning,           \* EventProcessor.running
    plist,              \* run's `files`: the paths of this scan still to be processed
    events,             \* EVENT_DIR: event file name -> lines
    fed,                \* how often each raw file (by its `born`) was given to detect_events
    sent,               \* codec check: the records handed to write_sample, as they were given
    decoded,            \* codec check: <<>>, or <<what read_binary_file returned>>
    detected,           \* detection check: <<>>, or <<detect_events' locals and result for `sent`>>
    written             \* detection check: <<>>, or <<the call of write_event_csv: the range,
                        \* whether a step of it was made to fail, the result>>

svars == <<streaming, tcp_port, smbus, live_stream, net, since_ping>>
cvars == <<i2c_bus, running, phase, active_sensors, sensor_files, consecutive_errors, error_count,
           loop_count, clock, next_sample_time, tick, svars>>
pvars == <<prunning, plist, events, fed>>
xvars == <<sent, decoded, detected, written>>
vars == <<cvars, raw, faults, env, pvars, xvars>>

\* ------------------------------------------------------------------ helpers
Max(a, b) == IF a >= b THEN a ELSE b
Min(a, b) == IF a <= b THEN a ELSE b
Range(s) == {s[i] : i \in 1..Len(s)}
Without(f, k) == [x \in DOMAIN f \ {k} |-> f[x]]
With(f, k, v) == [x \in DOMAIN f \cup {k} |-> IF x = k THEN v ELSE f[x]]

\* ------------------------------------------------------------------ binary format
RECURSIVE Pow2(_)
Pow2(n) == IF n <= 0 THEN 1 ELSE 2 * Pow2(n - 1)

RECURSIVE BitLen(_)
BitLen(n) == IF n <= 0 THEN 0 ELSE 1 + BitLen(n \div 2)

\* struct "f": a double rounded to the nearest value with F32_MANT_BITS significant bits.
F32Abs(x) ==
    LET g == Pow2(BitLen(x) - F32_MANT_BITS)
    IN  ((x + g \div 2) \div g) * g
F32(x) == IF x < 0 THEN 0 - F32Abs(0 - x) ELSE F32Abs(x)

\* (variant for the sensitivity of C6: a record whose floats keep every bit)
pack_record_exact(ts, ax, ay, az) == <<ts, ax, ay, az>>

\* struct.pack(RECORD_FORMAT, ts, ax, ay, az): "<dfff"
pack_record(ts, ax, ay, az) == <<ts, F32(ax), F32(ay), F32(az)>>

\* struct.pack(HEADER_FORMAT, ...): "<4sBBBBHfd"; "B" takes 0..255 only
pack_header_ok(bus, addr) == bus \in 0..255 /\ addr \in 0..255
pack_header(bus, addr, start_ts) ==
    [magic |-> FILE_MAGIC, ver |-> FILE_VERSION, bus |-> bus, addr |-> addr,
     fs |-> FULL_SCALE, rate |-> SAMPLE_RATE_HZ, sens |-> SENSITIVITY, start_ts |-> start_ts]

\* A file of the raw directory: the header it holds (none or one), its whole records,
\* the bytes after the last whole record, and (for the claims) who created it and when.
FileSize(f) == HEADER_SIZE * Len(f.hdr) + RECORD_SIZE * Len(f.recs) + f.tail
EmptyFile(addr, ts) == [hdr |-> <<>>, recs |-> <<>>, tail |-> 0, born |-> <<addr, ts>>]

\* f"accel_bus{bus}_0x{addr:02x}_{ts_int}" + ".dat.tmp" / ".dat"
FileName(bus, addr, ts_int, tmp) == [bus |-> bus, addr |-> addr, sec |-> ts_int, tmp |-> tmp]
IntOf(ts) == ts \div TicksPerSec

\* ------------------------------------------------------------------ SensorFile
\* what may fail in a SensorFile: open(), the write of the header, the write of a record,
\* the periodic flush, and the seal (its flush, fsync, close or rename)
FaultKinds == {"open", "header", "record", "flush", "seal"}

SensorFile(addr) ==
    [addr |-> addr, fd |-> FALSE, tmp_path |-> <<>>, final_path |-> <<>>,
     bytes_written |-> 0, samples_in_file |-> 0]

Outcome(sf, rw, raised, hit) == [sf |-> sf, raw |-> rw, raised |-> raised, hit |-> hit]

\* SensorFile._new_file under the failures F
new_file(sf, rw, ts, bus, F) ==
    LET tmp == FileName(bus, sf.addr, IntOf(ts), TRUE)
        fin == FileName(bus, sf.addr, IntOf(ts), FALSE)
        sf1 == [sf EXCEPT !.tmp_path = <<tmp>>, !.final_path = <<fin>>]
        sf2 == [sf1 EXCEPT !.fd = TRUE]
        rw1 == With(rw, tmp, EmptyFile(sf.addr, ts))
        rw2 == With(rw, tmp, [rw1[tmp] EXCEPT !.hdr = <<pack_header(bus, sf.addr, ts)>>])
    IN  IF "open" \in F THEN Outcome(sf1, rw, TRUE, {"open"})
        ELSE IF ~pack_header_ok(bus, sf.addr) THEN Outcome(sf2, rw1, TRUE, {})
        ELSE IF "header" \in F THEN Outcome(sf2, rw1, TRUE, {"header"})
        ELSE Outcome([sf2 EXCEPT !.bytes_written = HEADER_SIZE, !.samples_in_file = 0],
                     rw2, FALSE, {})

\* os.rename(tmp_path, final_path): the file leaves its temporary name and takes the
\* final one, replacing whatever held it
Rename(rw, tmp, fin) == With(Without(rw, tmp), fin, rw[tmp])

\* (variant for the sensitivity of C33: a failed seal keeps the handle)
seal_keeps_handle(sf, rw, F) ==
    IF ~sf.fd THEN Outcome(sf, rw, FALSE, {})
    ELSE IF "seal" \in F THEN Outcome(sf, rw, FALSE, {"seal"})
    ELSE Outcome([sf EXCEPT !.fd = FALSE],
                 Rename(rw, sf.tmp_path[1], sf.final_path[1]), FALSE, {})

\* SensorFile._seal_file under the failures F.  When flush, fsync or close fails the
\* handle is dropped and nothing is renamed; when the rename fails the closed file
\* stays where it is: either way the file keeps its temporary name.
seal_file(sf, rw, F) ==
    IF ~sf.fd THEN Outcome(sf, rw, FALSE, {})
    ELSE IF "seal" \in F THEN Outcome([sf EXCEPT !.fd = FALSE], rw, FALSE, {"seal"})
    ELSE Outcome([sf EXCEPT !.fd = FALSE],
                 Rename(rw, sf.tmp_path[1], sf.final_path[1]), FALSE, {})

\* the periodic flush of write_sample
flush_step(sf, rw, F) ==
    IF sf.samples_in_file % FLUSH_EVERY = 0 /\ "flush" \in F
    THEN LET s == seal_file(sf, rw, F) IN Outcome(s.sf, s.raw, FALSE, s.hit \cup {"flush"})
    ELSE Outcome(sf, rw, FALSE, {})

\* (variant for the sensitivity of C4: a write_sample that never rotates)
never_rotate(sf, rw, F) == Outcome(sf, rw, FALSE, {})

\* the rotation of write_sample
rotate_step(sf, rw, F) ==
    IF sf.bytes_written >= MAX_FILE_BYTES THEN seal_file(sf, rw, F)
    ELSE Outcome(sf, rw, FALSE, {})

\* SensorFile.write_sample under the failures F
write_sample(sf, rw, ts, ax, ay, az, bus, F) ==
    LET n == IF sf.fd THEN Outcome(sf, rw, FALSE, {}) ELSE new_file(sf, rw, ts, bus, F)
    IN  IF n.raised THEN n
        ELSE IF "record" \in F THEN Outcome(n.sf, n.raw, TRUE, n.hit \cup {"record"})
        ELSE LET tmp == n.sf.tmp_path[1]
                 rw1 == With(n.raw, tmp,
                             [n.raw[tmp] EXCEPT !.recs = Append(@, pack_record(ts, ax, ay, az))])
                 sf1 == [n.sf EXCEPT !.bytes_written = @ + RECORD_SIZE,
                                     !.samples_in_file = @ + 1]
                 fl == flush_step(sf1, rw1, F)
                 ro == rotate_step(fl.sf, fl.raw, F \ fl.hit)
             IN  Outcome(ro.sf, ro.raw, FALSE, n.hit \cup fl.hit \cup ro.hit)

\* SensorFile.close for every SensorFile of `files`, in the order `order`; G gives
\* the failures of each
RECURSIVE close_all(_, _, _, _)
close_all(order, files, rw, G) ==
    IF order = <<>> THEN Outcome(files, rw, FALSE, [a \in {} |-> {}])
    ELSE LET a == Head(order)
             s == seal_file(files[a], rw, G[a])
             r == close_all(Tail(order), files, s.raw, G)
         IN  Outcome(With(r.sf, a, s.sf), r.raw, FALSE, With(r.hit, a, s.hit))

\* ------------------------------------------------------------------ sensor read
\* read_accel: six bytes, little-endian 16-bit two's complement, >> 4, * SENSITIVITY
Axis(lo, hi) ==
    LET r == hi * 256 + lo
        s == IF r >= 32768 THEN r - 65536 ELSE r
    IN  s \div 16
read_accel(data) == <<Axis(data[1], data[2]), Axis(data[3], data[4]), Axis(data[5], data[6])>>

\* what the bus answers: at rest (z = 10 digits) and in a shock (x = -160 digits)
AtRest == <<0, 0, 0, 0, 160, 0>>
Shock == <<0, 246, 0, 0, 160, 0>>
BusData == IF env.shock_at = loop_count + 1 THEN Shock ELSE AtRest
Environments == [lag : 0..MaxLag, shock_at : 0..MaxLoops, faults : {MaxFaults}, errors : {MaxErrors}, dead : {0}]

\* ------------------------------------------------------------------ live stream
\* LiveStream.__init__: no server socket, no client
LiveStream == [server_sock |-> FALSE, client_sock |-> 0]

\* LiveStream.start: bind and listen
start(ls) == [ls EXCEPT !.server_sock = TRUE]

\* what check_accept sends to a connection it turns away
ERROR_LINE == "ERROR: another client is connected\n"

\* "%.4f,%d,0x%02x,%.3f,%.3f,%.3f\n": the timestamp in ten-thousandths of a second (a
\* sample interval is ten of them), the accelerations in thousandths of g (a digit of
\* 0.098 g is 98 of them)
StreamLine(bus_num, ts, addr, ax, ay, az) == <<ts * 10, bus_num, addr, ax * 98, ay * 98, az * 98>>

\* the peers: nobody has connected
NoPeers == [conns |-> <<>>, drops |-> 0]

\* the connection server_sock.accept() would return: the oldest one waiting (0: none)
FirstPending(conns) ==
    IF \E i \in 1..Len(conns) : conns[i].st = "pending"
    THEN CHOOSE i \in 1..Len(conns) :
            /\ conns[i].st = "pending"
            /\ \A j \in 1..(i - 1) : conns[j].st # "pending"
    ELSE 0

\* (variant for the sensitivity of C21: the newcomer takes the place of the client)
accept_newcomer(ls, nt, err) ==
    LET p == FirstPending(nt.conns)
    IN  IF ~ls.server_sock \/ p = 0 THEN [ls |-> ls, net |-> nt]
        ELSE [ls |-> [ls EXCEPT !.client_sock = p],
              net |-> [nt EXCEPT !.conns[p].st = "attached"]]

\* LiveStream.check_accept; err: accept() raises something else than BlockingIOError
\* and the connection is lost
check_accept(ls, nt, err) ==
    LET p == FirstPending(nt.conns)
    IN  IF ~ls.server_sock \/ p = 0 THEN [ls |-> ls, net |-> nt]
        ELSE IF err
             THEN [ls |-> ls,
                   net |-> [conns |-> [nt.conns EXCEPT ![p].st = "aborted"],
                            drops |-> nt.drops + 1]]
        ELSE IF ls.client_sock # 0
             THEN [ls |-> ls,
                   net |-> [nt EXCEPT !.conns[p] = [st |-> "rejected", got |-> <<ERROR_LINE>>]]]
        ELSE [ls |-> [ls EXCEPT !.client_sock = p],
              net |-> [nt EXCEPT !.conns[p].st = "attached"]]

\* LiveStream._drop_client
drop_client(ls, nt) ==
    IF ls.client_sock = 0 THEN [ls |-> ls, net |-> nt]
    ELSE [ls |-> [ls EXCEPT !.client_sock = 0],
          net |-> [nt EXCEPT !.conns[ls.client_sock].st = "closed"]]

\* (variant for the sensitivity of C22: a failed send also gives up the server socket)
send_or_shut(ls, nt, line, fail) ==
    IF ls.client_sock = 0 THEN [ls |-> ls, net |-> nt]
    ELSE IF fail
         THEN LET d == drop_client(ls, nt)
              IN  [ls |-> [d.ls EXCEPT !.server_sock = FALSE],
                   net |-> [d.net EXCEPT !.drops = @ + 1]]
    ELSE [ls |-> ls, net |-> [nt EXCEPT !.conns[ls.client_sock].got = Append(@, line)]]

\* LiveStream.send_sample; fail: sendall raises (reset, broken pipe, would block, ...)
send_sample(ls, nt, line, fail) ==
    IF ls.client_sock = 0 THEN [ls |-> ls, net |-> nt]
    ELSE IF fail
         THEN LET d == drop_client(ls, nt)
              IN  [ls |-> d.ls, net |-> [d.net EXCEPT !.drops = @ + 1]]
    ELSE [ls |-> ls, net |-> [nt EXCEPT !.conns[ls.client_sock].got = Append(@, line)]]

\* (variant for the sensitivity of C23: a failed send reaches the sampling loop)
send_propagates(fail) == fail

\* whether send_sample raises when sendall does: every exception is caught
SendRaises(fail) == FALSE

\* LiveStream.close
close_stream(ls, nt) ==
    LET d == drop_client(ls, nt)
    IN  [ls |-> [d.ls EXCEPT !.server_sock = FALSE], net |-> d.net]

\* ------------------------------------------------------------------ bus handle
\* AccelLogger.__init__: self.bus = None
NoBus == [cur |-> 0, opened |-> 0, closed |-> 0]

\* (variant for the sensitivity of C30: the handle held is dropped without closing it)
open_bus_leaks(b, ok) ==
    IF ok THEN [cur |-> b.opened + 1, opened |-> b.opened + 1, closed |-> b.closed]
    ELSE [cur |-> 0, opened |-> b.opened, closed |-> b.closed]

\* AccelLogger.open_bus: close the handle held, then SMBus(i2c_bus) (ok: it opens)
open_bus(b, ok) ==
    LET c == IF b.cur # 0 THEN b.closed + 1 ELSE b.closed
    IN  IF ok THEN [cur |-> b.opened + 1, opened |-> b.opened + 1, closed |-> c]
        ELSE [cur |-> 0, opened |-> b.opened, closed |-> c]

\* cleanup: "if self.bus: ... self.bus.close()"
close_bus(b) == IF b.cur # 0 THEN [b EXCEPT !.closed = @ + 1] ELSE b

\* ------------------------------------------------------------------ Collector
\* init_all_sensors: the sensors that answer, in SENSORS order
ProbeResults == {<<>>, <<25>>, <<24>>, <<25, 24>>}

FaultCount(G) == Cardinality({p \in (DOMAIN G) \X FaultKinds : p[2] \in G[p[1]]})
FaultSets(n) == {F \in SUBSET FaultKinds : Cardinality(F) <= n}

\* AccelLogger._open_sensor_files: seal what is open, one fresh SensorFile per active sensor
OpenOrder == SelectSeq(SENSORS, LAMBDA a : a \in DOMAIN sensor_files)

\* neither a bus handle nor a live stream, nothing pinged yet
StreamIdle ==
    /\ streaming = FALSE
    /\ smbus = NoBus
    /\ live_stream = <<>>
    /\ net = NoPeers
    /\ since_ping = 0

\* both programs just constructed: AccelLogger.__init__, EventProcessor.__init__
Started ==
    /\ running = TRUE
    /\ phase = "start"
    /\ StreamIdle
    /\ active_sensors = <<>>
    /\ sensor_files = [a \in {} |-> SensorFile(a)]
    /\ consecutive_errors = 0
    /\ error_count = 0
    /\ loop_count = 0
    /\ clock = 0
    /\ next_sample_time = 0
    /\ tick = [i |-> 0, ts |-> 0]
    /\ raw = [n \in {} |-> EmptyFile(0, 0)]
    /\ faults = 0
    /\ prunning = TRUE
    /\ plist = <<>>
    /\ events = [n \in {} |-> <<>>]
    /\ fed = [b \in {} |-> 0]
    /\ sent = <<>>
    /\ decoded = <<>>
    /\ detected = <<>>
    /\ written = <<>>

\* main(): --bus from the command line, in any environment
Init == Started /\ i2c_bus \in BusNumbers /\ tcp_port = 0 /\ env \in Environments

\* run, up to the init loop: _ensure_output_dir (or sys.exit(1)), then the live stream
\* if a port was given
Start ==
    /\ phase = "start"
    /\ \E dir_ok \in BOOLEAN, bind_ok \in BOOLEAN :
          /\ (tcp_port = 0 \/ ~dir_ok) => bind_ok
          /\ phase' = IF dir_ok THEN "init" ELSE "exited"
          /\ live_stream' = IF dir_ok /\ tcp_port # 0 /\ bind_ok
                            THEN <<start(LiveStream)>> ELSE <<>>
    /\ UNCHANGED <<i2c_bus, running, active_sensors, sensor_files, consecutive_errors,
                   error_count, loop_count, clock, next_sample_time, tick,
                   streaming, tcp_port, smbus, net, since_ping,
                   raw, faults, env, pvars, xvars>>

\* _signal_handler: SIGTERM / SIGINT
Signal ==
    /\ running /\ phase \notin {"stopped", "exited"}
    /\ running' = FALSE
    /\ UNCHANGED <<i2c_bus, phase, active_sensors, sensor_files, consecutive_errors,
                   error_count, loop_count, clock, next_sample_time, tick, svars,
                   raw, faults, env, pvars, xvars>>

\* The sensor the environment takes away for good (env.dead, 0: none) answers up to
\* the first successful tick and never after: read_i2c_block_data and the WHO_AM_I
\* read of init_sensor raise for it.
Dead(a) == a # 0 /\ env.dead = a /\ loop_count >= 1

\* (variant for the sensitivity of C40: a probe that cannot tell a dead sensor)
answers_all == {SENSORS}

\* what init_all_sensors can find: anything where no sensor is taken away, otherwise
\* every sensor that is not dead
Answers ==
    IF env.dead = 0 THEN ProbeResults
    ELSE {SelectSeq(SENSORS, LAMBDA a : ~Dead(a))}

\* one pass of an init loop (run's or recover's): watchdog_ping, probe, then open the
\* sensor files (and, in run, sd_ready and watchdog_ping)
Probe(from) ==
    /\ phase = from /\ running
    /\ \E act \in Answers :
        IF act = <<>>
        THEN /\ error_count < env.errors
             /\ error_count' = error_count + 1
             /\ clock' = clock + I2C_RESET_COOLDOWN_TICKS
             /\ active_sensors' = act
             /\ \E ok \in BOOLEAN : smbus' = open_bus(smbus, ok)
             /\ UNCHANGED <<phase, sensor_files, raw, next_sample_time, faults>>
        ELSE \E G \in [DOMAIN sensor_files -> FaultSets(env.faults - faults)] :
             LET c == close_all(OpenOrder, sensor_files, raw, G)
             IN  /\ c.hit = G
                 /\ faults + FaultCount(G) <= env.faults
                 /\ faults' = faults + FaultCount(G)
                 /\ raw' = c.raw
                 /\ active_sensors' = act
                 /\ sensor_files' = [a \in Range(act) |-> SensorFile(a)]
                 /\ smbus' = open_bus(smbus, TRUE)
                 /\ phase' = "running"
                 /\ next_sample_time' = IF from = "init" THEN clock ELSE next_sample_time
                 /\ UNCHANGED <<clock, error_count>>
    /\ since_ping' = 0
    /\ UNCHANGED <<i2c_bus, running, consecutive_errors, loop_count, tick, env, pvars, xvars,
                   streaming, tcp_port, live_stream, net>>

\* (variant for the sensitivity of C31: recover returns when no sensor was found)
recover_gives_up ==
    /\ phase = "recovering" /\ running
    /\ phase' = "stopped"
    /\ UNCHANGED <<i2c_bus, running, active_sensors, sensor_files, consecutive_errors,
                   error_count, loop_count, clock, next_sample_time, tick, svars,
                   raw, faults, env, pvars, xvars>>

InitSensors == Probe("init")
Recover == Probe("recovering")

\* (variant for the sensitivity of C26: run returns from the init loop unasked)
init_gives_up ==
    /\ phase = "init"
    /\ phase' = "stopped"
    /\ UNCHANGED <<i2c_bus, running, active_sensors, sensor_files, consecutive_errors,
                   error_count, loop_count, clock, next_sample_time, tick, svars,
                   raw, faults, env, pvars, xvars>>

\* (variant for the sensitivity of C32: an init loop that does not look at the flag)
init_waits ==
    /\ phase = "init" /\ ~running
    /\ UNCHANGED vars

\* run returns from the init loop when a signal arrived: no cleanup
InitStop ==
    /\ phase = "init" /\ ~running
    /\ phase' = "stopped"
    /\ UNCHANGED <<i2c_bus, running, active_sensors, sensor_files, consecutive_errors,
                   error_count, loop_count, clock, next_sample_time, tick, svars,
                   raw, faults, env, pvars, xvars>>

\* (variant for the sensitivity of C7: a deadline that does not move)
same_deadline(ts) == ts

\* next_sample_time = ts + SAMPLE_INTERVAL
next_deadline(ts) == ts + SAMPLE_INTERVAL

\* the watchdog of the sampling loop: "if loop_count % WATCHDOG_INTERVAL == 0:
\* watchdog_ping()"; n: the iterations since the last ping
ping_step(n, count) == IF count % WATCHDOG_INTERVAL = 0 THEN 0 ELSE n + 1

\* the top of a tick: sleep to the deadline, read the time, set the next deadline,
\* ping the watchdog and look for a new client when it is time to, compute `streaming`
TickStart ==
    /\ phase = "running" /\ running /\ tick.i = 0
    /\ loop_count < MaxLoops
    /\ LET ts == Max(clock, next_sample_time) + env.lag
       IN  /\ ts <= MaxClock
           /\ clock' = ts
           /\ next_sample_time' = next_deadline(ts)
           /\ tick' = [i |-> 1, ts |-> ts]
    /\ since_ping' = ping_step(since_ping, loop_count)
    /\ IF live_stream # <<>> /\ loop_count % ACCEPT_CHECK_INTERVAL = 0
       THEN \E err \in BOOLEAN :
               LET r == check_accept(live_stream[1], net, err)
               IN  /\ err => /\ net.drops < MaxDrops
                             /\ live_stream[1].server_sock
                             /\ FirstPending(net.conns) # 0
                   /\ live_stream' = <<r.ls>>
                   /\ net' = r.net
       ELSE UNCHANGED <<live_stream, net>>
    /\ streaming' = IF live_stream' = <<>> THEN FALSE ELSE live_stream'[1].client_sock # 0
    /\ UNCHANGED <<i2c_bus, running, phase, active_sensors, sensor_files, consecutive_errors,
                   error_count, loop_count, raw, faults, env, pvars, xvars, tcp_port, smbus>>

\* (variant for the sensitivity of C28: recovery one failed tick later)
recover_late(n) == n > MAX_CONSECUTIVE_ERRORS

\* "if self.consecutive_errors >= MAX_CONSECUTIVE_ERRORS", n the counter just incremented
must_recover(n) == n >= MAX_CONSECUTIVE_ERRORS

\* the except branches of run: count the error, then cool down or recover (which
\* resets the counter and sleeps)
TickFailed ==
    /\ error_count < env.errors
    /\ error_count' = error_count + 1
    /\ tick' = [i |-> 0, ts |-> tick.ts]
    /\ IF must_recover(consecutive_errors + 1)
       THEN /\ consecutive_errors' = 0
            /\ phase' = "recovering"
            /\ clock' = clock + I2C_RESET_COOLDOWN_TICKS
       ELSE /\ consecutive_errors' = consecutive_errors + 1
            /\ phase' = phase
            /\ clock' = clock + ERROR_COOLDOWN_TICKS
    /\ UNCHANGED <<i2c_bus, running, active_sensors, loop_count, next_sample_time>>

\* (variant for the sensitivity of C29: a successful tick that keeps the counter)
tick_done_keeps ==
    /\ tick' = [i |-> 0, ts |-> tick.ts]
    /\ loop_count' = loop_count + 1
    /\ UNCHANGED <<i2c_bus, running, phase, active_sensors, clock, next_sample_time,
                   error_count, consecutive_errors>>

\* the rest of a tick after the last sensor: the counters of a successful tick
TickDone ==
    /\ tick' = [i |-> 0, ts |-> tick.ts]
    /\ consecutive_errors' = 0
    /\ loop_count' = loop_count + 1
    /\ UNCHANGED <<i2c_bus, running, phase, active_sensors, clock, next_sample_time,
                   error_count>>

\* read_accel raises for the sensor whose turn it is
ReadFails ==
    /\ phase = "running" /\ tick.i >= 1
    /\ env.dead # 0 => Dead(active_sensors[tick.i])
    /\ TickFailed
    /\ UNCHANGED <<sensor_files, raw, faults, env, pvars, xvars, svars>>

\* (variant for the sensitivity of C24: the sample is streamed whether written or not)
send_regardless(raised, strm) == strm

\* run: send_sample comes after write_sample, under "if streaming"
Sending(raised, strm) == ~raised /\ strm

\* read_accel, write_sample and, when streaming, send_sample for the sensor whose
\* turn it is
SensorStep ==
    /\ phase = "running" /\ tick.i >= 1
    /\ ~Dead(active_sensors[tick.i])
    /\ \E F \in FaultSets(env.faults - faults), fail \in BOOLEAN :
        LET a == active_sensors[tick.i]
            v == read_accel(BusData)
        IN  /\ fail => /\ streaming /\ net.drops < MaxDrops
                       /\ live_stream[1].client_sock # 0
            /\ \E w \in {write_sample(sensor_files[a], raw, tick.ts, v[1], v[2], v[3],
                                       i2c_bus, F)} :
                LET sending == Sending(w.raised, streaming)
                    s == IF sending
                         THEN send_sample(live_stream[1], net,
                                          StreamLine(i2c_bus, tick.ts, a, v[1], v[2], v[3]),
                                          fail)
                         ELSE [ls |-> <<>>, net |-> net]
                IN  /\ w.hit = F
                    /\ fail => sending
                    /\ faults' = faults + Cardinality(F)
                    /\ raw' = w.raw
                    /\ sensor_files' = [sensor_files EXCEPT ![a] = w.sf]
                    /\ live_stream' = IF sending THEN <<s.ls>> ELSE live_stream
                    /\ net' = s.net
                    /\ IF w.raised \/ (fail /\ SendRaises(fail)) THEN TickFailed
                       ELSE IF tick.i = Len(active_sensors) THEN TickDone
                       ELSE /\ tick' = [tick EXCEPT !.i = @ + 1]
                            /\ UNCHANGED <<i2c_bus, running, phase, active_sensors, clock,
                                           next_sample_time, error_count,
                                           consecutive_errors, loop_count>>
    /\ UNCHANGED <<env, pvars, xvars, streaming, tcp_port, smbus, since_ping>>

\* cleanup, once the sampling loop (or recover) saw the signal
Cleanup ==
    /\ ~running
    /\ \/ phase = "running" /\ tick.i = 0
       \/ phase = "recovering"
    /\ \E G \in [DOMAIN sensor_files -> FaultSets(env.faults - faults)] :
        LET c == close_all(OpenOrder, sensor_files, raw, G)
        IN  /\ c.hit = G
            /\ faults + FaultCount(G) <= env.faults
            /\ faults' = faults + FaultCount(G)
            /\ raw' = c.raw
            /\ sensor_files' = c.sf
    /\ IF live_stream = <<>> THEN UNCHANGED <<live_stream, net>>
       ELSE LET r == close_stream(live_stream[1], net)
            IN  live_stream' = <<r.ls>> /\ net' = r.net
    /\ smbus' = close_bus(smbus)
    /\ phase' = "stopped"
    /\ UNCHANGED <<i2c_bus, running, active_sensors, consecutive_errors, error_count,
                   loop_count, clock, next_sample_time, tick, env, pvars, xvars,
                   streaming, tcp_port, since_ping>>

\* a peer connects to the live-stream port
Connect ==
    /\ phase \notin {"stopped", "exited"}
    /\ live_stream # <<>>
    /\ Len(net.conns) < MaxClients
    /\ IF live_stream = <<>> THEN FALSE ELSE live_stream[1].server_sock
    /\ net' = [net EXCEPT !.conns = Append(@, [st |-> "pending", got |-> <<>>])]
    /\ UNCHANGED <<i2c_bus, running, phase, active_sensors, sensor_files, consecutive_errors,
                   error_count, loop_count, clock, next_sample_time, tick,
                   streaming, tcp_port, smbus, live_stream, since_ping,
                   raw, faults, env, pvars, xvars>>

\* ------------------------------------------------------------------ Processor: parsing
\* read_binary_file on the file f (None: <<>>, else <<[bus, addr, rate, samples]>>).
\* A file without a header that is long enough has the bytes of its first records
\* where the header should be: the magic does not match.
read_binary_file(f) ==
    IF FileSize(f) < HEADER_SIZE THEN <<>>
    ELSE IF f.hdr = <<>> THEN <<>>
    ELSE IF f.hdr[1].magic # FILE_MAGIC THEN <<>>
    ELSE IF f.hdr[1].ver # FILE_VERSION THEN <<>>
    ELSE LET n_records == (RECORD_SIZE * Len(f.recs) + f.tail) \div RECORD_SIZE
         IN  IF n_records = 0 THEN <<>>
             ELSE <<[bus |-> f.hdr[1].bus, addr |-> f.hdr[1].addr, rate |-> f.hdr[1].rate,
                     samples |-> SubSeq(f.recs, 1, n_records)]>>

\* ------------------------------------------------------------------ Processor: detection
\* magnitudes[i] squared, in digits
MagSq(s) == s[2] * s[2] + s[3] * s[3] + s[4] * s[4]

RECURSIVE SumSq(_, _, _)
SumSq(samples, lo, hi) ==
    IF lo > hi THEN 0 ELSE MagSq(samples[lo]) + SumSq(samples, lo + 1, hi)

RmsWindow(rate) == Max(1, RMS_WINDOW_SEC * rate)

\* a Python float: the result of an operation is rounded to D_MANT_BITS significant bits
D64_EXACT_BELOW == Pow2(D_MANT_BITS)
D64Abs(x) ==
    IF x < D64_EXACT_BELOW THEN x
    ELSE LET g == Pow2(BitLen(x \div D64_EXACT_BELOW))
         IN  ((x + g \div 2) \div g) * g
D64(x) == IF x < 0 THEN 0 - D64Abs(0 - x) ELSE D64Abs(x)

\* (variant for the sensitivity of C19: a magnitude that leaves the z axis out)
planar_only(s) == D64(s[2] * s[2] + s[3] * s[3])

\* magnitudes[i] * magnitudes[i]
MagTimesMag(s) == D64(MagSq(s))

\* sum_sq after the loop "for i in range(k): sum_sq += magnitudes[i] * magnitudes[i]"
RECURSIVE BlockSum(_, _)
BlockSum(samples, k) ==
    IF k = 0 THEN 0 ELSE D64(BlockSum(samples, k - 1) + MagTimesMag(samples[k]))

\* "if sum_sq < 0.0: sum_sq = 0.0"
DriftGuard(x) == IF x < 0 THEN 0 ELSE x

\* (variant for the sensitivity of C18: a sum that nothing is slid out of)
slide_keep(sum_sq, samples, window, i) ==
    DriftGuard(D64(sum_sq + MagTimesMag(samples[i])))

\* one pass of the sliding loop for the sample i (1-based): sum_sq += m[i]^2, then
\* sum_sq -= m[i - window]^2, then the guard
Slide(sum_sq, samples, window, i) ==
    DriftGuard(D64(D64(sum_sq + MagTimesMag(samples[i])) - MagTimesMag(samples[i - window])))

\* the values of sum_sq from which the sliding loop computes rms[window + 1 .. n]:
\* `sums` holds those up to rms[i], its last element is the present sum_sq
RECURSIVE SlidingSums(_, _, _, _)
SlidingSums(sums, samples, window, i) ==
    IF i >= Len(samples) THEN sums
    ELSE SlidingSums(Append(sums, Slide(sums[Len(sums)], samples, window, i)),
                     samples, window, i + 1)

\* the list rms, squared, as fractions [num, den]: the bootstrap value for the first
\* `window` samples, then the running sum as the sliding loop holds it.
\* (the division and the square root are taken as exact: rms is compared by its square)
Rms(samples, rate) ==
    LET n == Len(samples)
        window == RmsWindow(rate)
        init_count == Min(window, n)
        boot == BlockSum(samples, init_count)
        sums == IF n > window THEN SlidingSums(<<boot>>, samples, window, window + 1)
                ELSE <<>>
    IN  [i \in 1..n |-> IF i <= init_count THEN [num |-> boot, den |-> init_count]
                        ELSE [num |-> sums[i - window], den |-> window]]

\* mag > ABS_THRESHOLD_G, with mag in digits of 0.098 g: 49 * mag > 5000
OverAbs(m2) == 49 * 49 * m2 > (500 * ABS_THRESHOLD_G) * (500 * ABS_THRESHOLD_G)
\* mag > REL_MULTIPLIER * rms[i]
OverRel(m2, r) == m2 * r.den > REL_MULTIPLIER * REL_MULTIPLIER * r.num

\* (variant for the sensitivity of C14: both conditions asked for)
needs_both(m2, r) == OverAbs(m2) /\ OverRel(m2, r)

\* "if mag > ABS_THRESHOLD_G or mag > REL_MULTIPLIER * rms[i]"
IsTrigger(m2, r) == OverAbs(m2) \/ OverRel(m2, r)

Triggers(samples, rate) ==
    LET rms == Rms(samples, rate)
    IN  SelectSeq([i \in 1..Len(samples) |-> i],
                  LAMBDA i : IsTrigger(MagSq(samples[i]), rms[i]))

\* (variant for the sensitivity of C15: a window that is not clipped to the samples)
unclipped_window(samples, rate, t) ==
    [start |-> t - PRE_EVENT_SEC * rate,
     end |-> t + POST_EVENT_SEC * rate,
     trigger_ts |-> samples[t][1]]

\* (variant for the sensitivity of C20: a window that ends at its trigger)
no_post_padding(samples, rate, t) ==
    [start |-> Max(1, t - PRE_EVENT_SEC * rate),
     end |-> t,
     trigger_ts |-> samples[t][1]]

\* the padded window of the trigger t (1-based indices)
PaddedWindow(samples, rate, t) ==
    [start |-> Max(1, t - PRE_EVENT_SEC * rate),
     end |-> Min(Len(samples), t + POST_EVENT_SEC * rate),
     trigger_ts |-> samples[t][1]]

\* (variant for the sensitivity of C16: a window that starts exactly merge_samples
\* after the previous end is kept apart)
RECURSIVE merge_strict(_, _, _)
merge_strict(merged, windows, merge_samples) ==
    IF windows = <<>> THEN merged
    ELSE LET w == Head(windows)
             prev == merged[Len(merged)]
         IN  IF w.start < prev.end + merge_samples
             THEN merge_strict([merged EXCEPT ![Len(merged)] =
                                   [prev EXCEPT !.end = Max(prev.end, w.end)]],
                               Tail(windows), merge_samples)
             ELSE merge_strict(Append(merged, w), Tail(windows), merge_samples)

\* (variant for the sensitivity of C17: a merge that takes over the later timestamp)
RECURSIVE merge_keep_last(_, _, _)
merge_keep_last(merged, windows, merge_samples) ==
    IF windows = <<>> THEN merged
    ELSE LET w == Head(windows)
             prev == merged[Len(merged)]
         IN  IF w.start <= prev.end + merge_samples
             THEN merge_keep_last([merged EXCEPT ![Len(merged)] =
                                      [start |-> prev.start, end |-> Max(prev.end, w.end),
                                       trigger_ts |-> w.trigger_ts]],
                                  Tail(windows), merge_samples)
             ELSE merge_keep_last(Append(merged, w), Tail(windows), merge_samples)

\* (variant for the sensitivity of C36: every window becomes a range of its own)
merge_nothing(merged, windows, merge_samples) == merged \o windows

RECURSIVE MergeWindows(_, _, _)
MergeWindows(merged, windows, merge_samples) ==
    IF windows = <<>> THEN merged
    ELSE LET w == Head(windows)
             prev == merged[Len(merged)]
         IN  IF w.start <= prev.end + merge_samples
             THEN MergeWindows([merged EXCEPT ![Len(merged)] =
                                   [prev EXCEPT !.end = Max(prev.end, w.end)]],
                               Tail(windows), merge_samples)
             ELSE MergeWindows(Append(merged, w), Tail(windows), merge_samples)

detect_events(samples, rate) ==
    LET triggers == Triggers(samples, rate)
        windows == [k \in 1..Len(triggers) |-> PaddedWindow(samples, rate, triggers[k])]
    IN  IF Len(samples) = 0 \/ triggers = <<>> THEN <<>>
        ELSE MergeWindows(<<windows[1]>>, Tail(windows), MERGE_GAP_SEC * rate)

\* ------------------------------------------------------------------ Processor: output
\* "accel_bus%d_0x%02x_event_%d" + ".dat.tmp" / ".dat"
EventName(bus, addr, ts_int, tmp) == [bus |-> bus, addr |-> addr, sec |-> ts_int, tmp |-> tmp]
\* "%.4f,%d,%s,%.3f,%.3f,%.3f\n"
CsvLine(bus, addr, s) == <<s[1], bus, addr, s[2], s[3], s[4]>>

\* the lines of write_event_csv for the samples lo..hi (1-based, both included)
CsvLines(bus, addr, samples, lo, hi) ==
    [k \in 1..(hi - lo + 1) |-> CsvLine(bus, addr, samples[lo + k - 1])]

\* What may fail inside the try of write_event_csv: the open, a write (the file is left
\* short), flush or fsync, the rename; "stuck": a write fails and so does the unlink
\* of the except branch.  "none": nothing fails.
EventFaults == {"open", "write", "sync", "rename", "stuck"}

\* (variant for the sensitivity of C12: an except branch that publishes what was written)
publish_partial(ev, tmp, fin, left, unlink_fails) == With(Without(ev, tmp), fin, left)

\* the except branch of write_event_csv: the temporary file, holding `left`, is
\* unlinked if it exists; a failure of that is swallowed
drop_partial(ev, tmp, fin, left, unlink_fails) ==
    IF unlink_fails THEN With(ev, tmp, left) ELSE Without(ev, tmp)

\* write_event_csv: "raise" (int() of the timestamp fails, before the try), "fail"
\* (caught, False) or "ok" (the file is renamed in place).  A failed write leaves
\* some of the lines behind: here all but the last.
write_event_csv(ev, bus, addr, w, samples, mode) ==
    LET tmp == EventName(bus, addr, IntOf(w.trigger_ts), TRUE)
        fin == EventName(bus, addr, IntOf(w.trigger_ts), FALSE)
        lines == CsvLines(bus, addr, samples, w.start, w.end)
        part == SubSeq(lines, 1, Len(lines) - 1)
    IN  IF w.trigger_ts = NON_FINITE THEN [res |-> "raise", events |-> ev]
        ELSE IF mode = "open"
             THEN [res |-> "fail", events |-> drop_partial(ev, tmp, fin, <<>>, FALSE)]
        ELSE IF mode \in {"write", "stuck"}
             THEN [res |-> "fail", events |-> drop_partial(ev, tmp, fin, part, mode = "stuck")]
        ELSE IF mode \in {"sync", "rename"}
             THEN [res |-> "fail", events |-> drop_partial(ev, tmp, fin, lines, FALSE)]
        ELSE [res |-> "ok", events |-> With(Without(ev, tmp), fin, lines)]

\* the loop of _process_file over the events; E: the indices of the events whose write
\* fails, in the way `mode`
RECURSIVE write_events(_, _, _, _, _, _, _, _)
write_events(ev, bus, addr, ws, k, samples, E, mode) ==
    IF k > Len(ws) THEN [res |-> "ok", events |-> ev, hit |-> {}]
    ELSE LET r == write_event_csv(ev, bus, addr, ws[k], samples,
                                  IF k \in E THEN mode ELSE "none")
         IN  IF r.res = "raise" THEN [res |-> "raise", events |-> r.events, hit |-> {}]
             ELSE LET t == write_events(r.events, bus, addr, ws, k + 1, samples, E, mode)
                  IN  [res |-> t.res, events |-> t.events,
                       hit |-> t.hit \cup (IF r.res = "fail" THEN {k} ELSE {})]

\* ------------------------------------------------------------------ Processor: scan
Digits(n) == IF n < 10 THEN <<48 + n>>
             ELSE IF n < 100 THEN <<48 + (n \div 10), 48 + (n % 10)>>
             ELSE <<48 + (n \div 100), 48 + ((n \div 10) % 10), 48 + (n % 10)>>
HexDigit(d) == IF d < 10 THEN 48 + d ELSE 87 + d
\* the characters of a raw file's name after "accel_bus" (ASCII codes)
NameKey(n) ==
    Digits(n.bus) \o <<95, 48, 120, HexDigit((n.addr) \div 16), HexDigit((n.addr) % 16), 95>>
        \o Digits(n.sec) \o <<46, 100, 97, 116>> \o (IF n.tmp THEN <<46, 116, 109, 112>> ELSE <<>>)

RECURSIVE LexLess(_, _)
LexLess(s, t) ==
    IF t = <<>> THEN FALSE
    ELSE IF s = <<>> THEN TRUE
    ELSE IF Head(s) # Head(t) THEN Head(s) < Head(t)
    ELSE LexLess(Tail(s), Tail(t))

RECURSIVE Sorted(_)
Sorted(S) ==
    IF S = {} THEN <<>>
    ELSE LET m == CHOOSE x \in S : \A y \in S \ {x} : LexLess(NameKey(x), NameKey(y))
         IN  <<m>> \o Sorted(S \ {m})

\* (variant for the sensitivity of C2: a listing that keeps the temporaries)
any_accel_name(n) == TRUE

\* name.startswith("accel_") and name.endswith(".dat") and not name.endswith(".tmp")
IsSealedName(n) == ~n.tmp

\* EventProcessor._get_sealed_files
get_sealed_files(rw) == Sorted({n \in DOMAIN rw : IsSealedName(n)})

\* EventProcessor._safe_delete
safe_delete(rw, path, fails) == IF fails \/ path \notin DOMAIN rw THEN rw ELSE Without(rw, path)

\* _signal_handler of the Processor
ProcSignal ==
    /\ prunning
    /\ prunning' = FALSE
    /\ UNCHANGED <<xvars, cvars, raw, faults, env, plist, events, fed>>

\* one pass of run's loop begins: list the sealed files (os.listdir may fail)
ProcScan ==
    /\ prunning /\ plist = <<>>
    /\ \E fails \in BOOLEAN :
        /\ fails => faults < env.faults
        /\ faults' = IF fails THEN faults + 1 ELSE faults
        /\ plist' = IF fails THEN <<>> ELSE get_sealed_files(raw)
    /\ plist' # <<>> \/ faults' # faults
    /\ UNCHANGED <<xvars, cvars, raw, env, prunning, events, fed>>

\* the for loop of run sees the signal: break
ProcBreak ==
    /\ ~prunning /\ plist # <<>>
    /\ plist' = <<>>
    /\ UNCHANGED <<xvars, cvars, raw, faults, env, prunning, events, fed>>

\* _process_file(path) for the next path of the scan; an exception it raises ends the scan
ProcFile ==
    /\ prunning /\ plist # <<>>
    /\ \E rd \in BOOLEAN, E \in SUBSET (1..2), mode \in EventFaults, ul \in BOOLEAN :
        LET path == Head(plist)
            there == path \in DOMAIN raw
            result == IF rd \/ ~there THEN <<>> ELSE read_binary_file(raw[path])
            r == result[1]
            evs == IF result = <<>> THEN <<>> ELSE detect_events(r.samples, r.rate)
            w == IF result = <<>> THEN [res |-> "ok", events |-> events, hit |-> {}]
                 ELSE write_events(events, r.bus, r.addr, evs, 1, r.samples, E, mode)
            used == (IF rd THEN 1 ELSE 0) + Cardinality(E) + (IF ul THEN 1 ELSE 0)
        IN  /\ rd => there
            /\ IF result # <<>> /\ raw[path].born \in DOMAIN fed
               THEN fed[raw[path].born] < MaxFed ELSE TRUE
            /\ w.hit = E
            /\ E = {} => mode = "open"
            /\ ul => (there /\ w.res # "raise")
            /\ faults + used <= env.faults
            /\ faults' = faults + used
            /\ events' = w.events
            /\ fed' = IF result = <<>> THEN fed
                      ELSE With(fed, raw[path].born,
                                IF raw[path].born \in DOMAIN fed THEN fed[raw[path].born] + 1 ELSE 1)
            /\ raw' = IF w.res = "raise" THEN raw ELSE safe_delete(raw, path, ul)
            /\ plist' = IF w.res = "raise" THEN <<>> ELSE Tail(plist)
    /\ UNCHANGED <<xvars, cvars, env, prunning>>

CollectorNext ==
    \/ Start
    \/ Signal
    \/ InitSensors
    \/ Recover
    \/ InitStop
    \/ TickStart
    \/ ReadFails
    \/ SensorStep
    \/ Cleanup

ProcessorNext ==
    \/ ProcSignal
    \/ ProcScan
    \/ ProcBreak
    \/ ProcFile

Next == CollectorNext \/ ProcessorNext

\* The Collector and the Processor side by side, in one environment.
JointInit == Started /\ i2c_bus = 0 /\ tcp_port = 0 /\ env = [lag |-> 0, shock_at |-> 1, faults |-> 1, errors |-> 2, dead |-> 0]
Spec == JointInit /\ [][Next]_vars

\* The Collector alone, in every environment.
SpecCollector == Init /\ [][CollectorNext]_vars

\* The Collector started with a port for the live stream, the peers that connect, and
\* an environment that fails one tick at most, so that recover is never entered.
StreamInit ==
    /\ Started /\ i2c_bus = 0 /\ tcp_port = 1
    /\ env = [lag |-> 0, shock_at |-> 0, faults |-> 1, errors |-> 1, dead |-> 0]
StreamNext ==
    \/ Start
    \/ Signal
    \/ InitSensors
    \/ InitStop
    \/ TickStart
    \/ ReadFails
    \/ SensorStep
    \/ Cleanup
    \/ Connect
SpecStream == StreamInit /\ [][StreamNext]_vars

\* The Collector alone on bus 0, punctual and at rest, in an environment that fails
\* ticks and probes often enough for recover to be entered.
RecoverInit ==
    /\ Started /\ i2c_bus = 0 /\ tcp_port = 0
    /\ env = [lag |-> 0, shock_at |-> 0, faults |-> MaxFaults, errors |-> MaxErrors + 1, dead |-> 0]
SpecRecover == RecoverInit /\ [][CollectorNext]_vars

\* The Collector alone on bus 0 with a file system that does not fail, either among
\* sensors that fail now and then or with one sensor that dies after the first tick.
\* The program is one thread whose calls return: while it has a step to take it takes
\* one in the end (a read returns, with data or with an error); signals and failures
\* are up to the environment.
LiveInit ==
    /\ Started /\ i2c_bus = 0 /\ tcp_port = 0
    /\ env \in {[lag |-> 0, shock_at |-> 0, faults |-> 0, errors |-> MaxErrors + 1, dead |-> 0]}
           \cup {[lag |-> 0, shock_at |-> 0, faults |-> 0,
                   errors |-> MAX_CONSECUTIVE_ERRORS, dead |-> d] : d \in Range(SENSORS)}
SpecLive ==
    /\ LiveInit /\ [][CollectorNext]_vars
    /\ WF_vars(Start \/ InitSensors \/ Recover \/ InitStop \/ TickStart
                  \/ SensorStep \/ ReadFails \/ Cleanup)

\* ------------------------------------------------------------------ Processor alone
\* Files the Processor may find in RAW_DIR, whoever put them there: name -> file.
\* Every sealed name matching accel_*.dat is taken up, whatever the file holds.
GoodHeader == pack_header(0, 25, 0)
Catalogue ==
    LET nm(k) == FileName(0, 25, k, FALSE)
        file(h, r, t, k) == [hdr |-> h, recs |-> r, tail |-> t, born |-> <<0, k>>]
        quiet == <<<<0, 0, 0, 10>>, <<1, 0, 0, 10>>>>
        shock == <<<<0, 0, 0, 10>>, <<1, -160, 0, 10>>>>
        poison == <<<<0, 0, 0, 10>>, <<NON_FINITE, -160, 0, 10>>>>
        after == <<<<2, -160, 0, 10>>, <<3, 0, 0, 10>>>>
    IN  [n \in {nm(k) : k \in 0..7} |->
            CASE n.sec = 0 -> file(<<>>, <<>>, HEADER_SIZE - 1, 0)                \* too short
              [] n.sec = 1 -> file(<<GoodHeader>>, poison, 0, 1)                  \* corrupt timestamp
              [] n.sec = 2 -> file(<<[GoodHeader EXCEPT !.magic = "XXXX"]>>, shock, 0, 2)
              [] n.sec = 3 -> file(<<GoodHeader>>, shock, 0, 3)
              [] n.sec = 4 -> file(<<[GoodHeader EXCEPT !.ver = 2]>>, shock, 0, 4)
              [] n.sec = 5 -> file(<<GoodHeader>>, quiet, RECORD_SIZE - 1, 5)     \* partial last record
              [] n.sec = 6 -> file(<<GoodHeader>>, after, 0, 6)                   \* goes on where 3 ends
              [] OTHER     -> file(<<GoodHeader>>, <<>>, 0, 7)]                   \* header only

Directories ==
    {[n \in D |-> Catalogue[n]] : D \in {X \in SUBSET DOMAIN Catalogue : Cardinality(X) <= MaxFiles}}

ProcInit ==
    /\ running = FALSE /\ phase = "stopped" /\ i2c_bus = 0
    /\ StreamIdle /\ tcp_port = 0
    /\ active_sensors = <<>>
    /\ sensor_files = [a \in {} |-> SensorFile(a)]
    /\ consecutive_errors = 0 /\ error_count = 0 /\ loop_count = 0
    /\ clock = 0 /\ next_sample_time = 0
    /\ tick = [i |-> 0, ts |-> 0]
    /\ raw \in Directories
    /\ faults = 0
    /\ env = [lag |-> 0, shock_at |-> 0, faults |-> MaxFaults, errors |-> 0, dead |-> 0]
    /\ prunning = TRUE /\ plist = <<>>
    /\ events = [n \in {} |-> <<>>]
    /\ fed = [b \in {} |-> 0]
    /\ sent = <<>> /\ decoded = <<>> /\ detected = <<>> /\ written = <<>>

SpecProcessor == ProcInit /\ [][ProcessorNext]_vars

\* ------------------------------------------------------------------ the file format, end to end
\* what read_accel can return (12-bit counts), and the header values "B" can hold
SampleValues == {<<0, 0, 10>>, <<-160, 0, 10>>, <<17, -17, 5>>, <<-2048, 2047, 1>>}
CodecBuses == {0, 1, 255}

CodecInit ==
    /\ running = FALSE /\ phase = "stopped" /\ i2c_bus \in CodecBuses
    /\ StreamIdle /\ tcp_port = 0
    /\ \E a \in Range(SENSORS) :
          /\ active_sensors = <<a>>
          /\ sensor_files = [x \in {a} |-> SensorFile(a)]
    /\ consecutive_errors = 0 /\ error_count = 0 /\ loop_count = 0
    /\ clock = 0 /\ next_sample_time = 0
    /\ tick = [i |-> 0, ts |-> 0]
    /\ raw = [n \in {} |-> EmptyFile(0, 0)]
    /\ faults = 0
    /\ env = [lag |-> 0, shock_at |-> 0, faults |-> 0, errors |-> 0, dead |-> 0]
    /\ prunning = FALSE /\ plist = <<>>
    /\ events = [n \in {} |-> <<>>]
    /\ fed = [b \in {} |-> 0]
    /\ sent = <<>> /\ decoded = <<>> /\ detected = <<>> /\ written = <<>>

\* the path under which the SensorFile's latest file is found
CurrentPath(sf) == IF sf.fd THEN sf.tmp_path[1] ELSE sf.final_path[1]

\* write_sample(ts, ax, ay, az) into the one file of the check, without failures
Encode ==
    /\ Len(sent) < MaxRecords
    /\ sent = <<>> \/ sensor_files[active_sensors[1]].fd
    /\ \E dt \in 1..2, v \in SampleValues :
        LET a == active_sensors[1]
            ts == clock + dt
            w == write_sample(sensor_files[a], raw, ts, v[1], v[2], v[3], i2c_bus, {})
        IN  /\ clock' = ts
            /\ raw' = w.raw
            /\ sensor_files' = [sensor_files EXCEPT ![a] = w.sf]
            /\ sent' = Append(sent, <<ts, v[1], v[2], v[3]>>)
            /\ decoded' = <<>>
    /\ UNCHANGED <<i2c_bus, running, phase, active_sensors, consecutive_errors, error_count,
                   loop_count, next_sample_time, tick, svars, faults, env, pvars,
                   detected, written>>

\* read_binary_file(path) on that file
Decode ==
    /\ sent # <<>> /\ decoded = <<>>
    /\ decoded' = <<read_binary_file(raw[CurrentPath(sensor_files[active_sensors[1]])])>>
    /\ UNCHANGED <<cvars, raw, faults, env, pvars, sent, detected, written>>

CodecNext == Encode \/ Decode
SpecCodec == CodecInit /\ [][CodecNext]_vars

\* ------------------------------------------------------------------ detection and output, as functions
\* Accelerations of the detection check, in digits: two baselines below ABS_THRESHOLD_G
\* (0.98 g, 9.7 g) and two spikes (15 g; 5 g, which is over REL_MULTIPLIER times the
\* quiet baseline only)
Baselines == {<<0, 0, 10>>, <<0, 0, 99>>}
SpikeValues == {<<153, 0, 0>>, <<50, 0, 10>>}

\* where the spikes of a signal of n samples may be: nowhere, at one index, at two
Spikes(n) == {{}} \cup {{a, b} : a \in 1..n, b \in 1..n}

\* n samples, one per sample interval, at the baseline except at the indices of S;
\* bad: the timestamp of the first of these is not finite
Samples(n, S, base, spike, bad) ==
    [i \in 1..n |->
        LET v == IF i \in S THEN spike ELSE base
        IN  <<IF bad /\ i \in S /\ (\A j \in S : i <= j) THEN NON_FINITE ELSE i - 1,
              v[1], v[2], v[3]>>]

DetectInputs ==
    {Samples(in[1], in[2], in[3], in[4], in[5]) :
        in \in {x \in (1..MaxSamples) \X Spikes(MaxSamples) \X Baselines
                       \X SpikeValues \X BOOLEAN :
                   /\ x[2] \subseteq 1..x[1]
                   /\ x[5] => Cardinality(x[2]) = 1
                   /\ x[2] = {} => x[4] = <<153, 0, 0>>}}

\* the header fields a decoded file hands on with its samples
DetectBus == 0
DetectAddr == SENSORS[1]

DetectInit ==
    /\ running = FALSE /\ phase = "stopped" /\ i2c_bus = DetectBus
    /\ StreamIdle /\ tcp_port = 0
    /\ active_sensors = <<>>
    /\ sensor_files = [x \in {} |-> SensorFile(x)]
    /\ consecutive_errors = 0 /\ error_count = 0 /\ loop_count = 0
    /\ clock = 0 /\ next_sample_time = 0
    /\ tick = [i |-> 0, ts |-> 0]
    /\ raw = [n \in {} |-> EmptyFile(0, 0)]
    /\ faults = 0
    /\ env = [lag |-> 0, shock_at |-> 0, faults |-> 0, errors |-> 0, dead |-> 0]
    /\ prunning = FALSE /\ plist = <<>>
    /\ events = [n \in {} |-> <<>>]
    /\ fed = [b \in {} |-> 0]
    /\ sent \in DetectInputs
    /\ decoded = <<>> /\ detected = <<>> /\ written = <<>>

\* detect_events(samples, sample_rate), with its locals rms, triggers and windows
Detect ==
    /\ detected = <<>>
    /\ \E rate \in 0..MaxRate :
          \E triggers \in {Triggers(sent, rate)} :
              detected' = <<[rate |-> rate,
                             rms |-> Rms(sent, rate),
                             triggers |-> triggers,
                             windows |-> [k \in 1..Len(triggers) |->
                                             PaddedWindow(sent, rate, triggers[k])],
                             ranges |-> detect_events(sent, rate)]>>
    /\ UNCHANGED <<cvars, raw, faults, env, pvars, sent, decoded, written>>

\* write_event_csv(bus, addr, samples, start_idx, end_idx, first_trigger_ts) for one of
\* the ranges detect_events returned
WriteEvent ==
    /\ detected # <<>> /\ written = <<>>
    /\ \E k \in 1..Len(detected[1].ranges), mode \in EventFaults \cup {"none"} :
          LET w == write_event_csv(events, DetectBus, DetectAddr, detected[1].ranges[k],
                                   sent, mode)
          IN  /\ events' = w.events
              /\ written' = <<[k |-> k, failing |-> mode # "none", res |-> w.res]>>
    /\ UNCHANGED <<cvars, raw, faults, env, prunning, plist, fed, sent, decoded, detected>>

DetectNext == Detect \/ WriteEvent
SpecDetect == DetectInit /\ [][DetectNext]_vars

\* ================================================================== claims

\* C1: every file of the raw directory under a final name (no .tmp) has a size of
\* HEADER_SIZE + k * RECORD_SIZE bytes, k >= 0: a whole header, then whole records.
C1_SealedFileIsHeaderAndWholeRecords ==
    \A n \in DOMAIN raw : ~n.tmp =>
        /\ FileSize(raw[n]) >= HEADER_SIZE
        /\ (FileSize(raw[n]) - HEADER_SIZE) % RECORD_SIZE = 0

\* C2: the Processor works only on paths with a final name, and none of them is the
\* path a SensorFile holds open for writing.
C2_ProcessorTakesSealedFilesOnly ==
    \A i \in 1..Len(plist) :
        /\ ~plist[i].tmp
        /\ \A a \in DOMAIN sensor_files :
              sensor_files[a].fd => sensor_files[a].tmp_path[1] # plist[i]

\* C2, its case: the Processor is in the middle of a scan while a SensorFile is open.
C2_ScanWhileWriting ==
    /\ plist # <<>>
    /\ \E a \in DOMAIN sensor_files :
          sensor_files[a].fd /\ sensor_files[a].tmp_path[1] \in DOMAIN raw

\* C3: no step of the Collector changes or replaces a file that has a final name, and
\* none loses a file written earlier by reopening its path.
C3_SealedFilesStayAsWritten ==
    [][\A n \in DOMAIN raw :
          /\ ~n.tmp => (n \in DOMAIN raw' /\ raw'[n] = raw[n])
          /\ \E m \in DOMAIN raw' : raw'[m].born = raw[n].born]_vars

\* C4: no file is larger than HEADER_SIZE + RECORD_SIZE * ceil(MAX_FILE_BYTES / RECORD_SIZE),
\* and no record is appended to a file that had reached MAX_FILE_BYTES.
C4_FileSizeIsBounded ==
    \A n \in DOMAIN raw :
        /\ FileSize(raw[n]) <=
              HEADER_SIZE + RECORD_SIZE * ((MAX_FILE_BYTES + RECORD_SIZE - 1) \div RECORD_SIZE)
        /\ raw[n].recs # <<>> => FileSize(raw[n]) - RECORD_SIZE < MAX_FILE_BYTES

\* C4, its case: a file that reached MAX_FILE_BYTES and was sealed by that write.
C4_RotatedFile ==
    \E n \in DOMAIN raw : ~n.tmp /\ FileSize(raw[n]) >= MAX_FILE_BYTES

\* C5: a file that holds records begins with one header whose start_timestamp is the
\* timestamp of its first record, and an open SensorFile counts HEADER_SIZE plus its
\* records, and as many samples as its file holds.
C5_FileBeginsWithItsFirstWrite ==
    /\ \A n \in DOMAIN raw : raw[n].recs # <<>> =>
          /\ Len(raw[n].hdr) = 1
          /\ raw[n].hdr[1].start_ts = raw[n].recs[1][1]
    /\ \A a \in DOMAIN sensor_files : sensor_files[a].fd =>
          /\ sensor_files[a].samples_in_file = Len(raw[sensor_files[a].tmp_path[1]].recs)
          /\ sensor_files[a].bytes_written =
                HEADER_SIZE + RECORD_SIZE * Len(raw[sensor_files[a].tmp_path[1]].recs)

\* C6 (as written): read_binary_file gives back bus, address, rate and exactly the
\* records that were handed to write_sample.
C6_DecodeGivesBackTheRecords ==
    decoded # <<>> =>
        /\ decoded[1] # <<>>
        /\ decoded[1][1].bus = i2c_bus
        /\ decoded[1][1].addr = active_sensors[1]
        /\ decoded[1][1].rate = SAMPLE_RATE_HZ
        /\ decoded[1][1].samples = sent

\* C6 (amended): read_binary_file gives back bus, address and rate, as many records in
\* the same order, every timestamp as it was, and every acceleration rounded to the
\* precision of a struct "f".
C6_DecodeGivesBackRoundedRecords ==
    decoded # <<>> =>
        /\ decoded[1] # <<>>
        /\ decoded[1][1].bus = i2c_bus
        /\ decoded[1][1].addr = active_sensors[1]
        /\ decoded[1][1].rate = SAMPLE_RATE_HZ
        /\ Len(decoded[1][1].samples) = Len(sent)
        /\ \A i \in 1..Len(sent) :
              decoded[1][1].samples[i] =
                 <<sent[i][1], F32(sent[i][2]), F32(sent[i][3]), F32(sent[i][4])>>

\* C6, its case: a decoded file of several records, one of them not representable.
C6_DecodedInexactRecord ==
    /\ decoded # <<>> /\ decoded[1] # <<>>
    /\ Len(sent) >= 2
    /\ \E i \in 1..Len(sent) : F32(sent[i][2]) # sent[i][2]

\* C7: in every raw file the timestamps of the records increase strictly.
C7_TimestampsIncrease ==
    \A n \in DOMAIN raw :
        \A i \in 1..(Len(raw[n].recs) - 1) : raw[n].recs[i][1] < raw[n].recs[i + 1][1]

\* C7, its case: a file that holds records of both sides of a failed tick.
C7_RecordsAroundFailedTick ==
    /\ env.lag = 0 /\ error_count > 0
    /\ \E n \in DOMAIN raw :
          /\ Len(raw[n].recs) >= 2
          /\ raw[n].recs[2][1] - raw[n].recs[1][1] > SAMPLE_INTERVAL

\* C8: when _process_file is done with a path, whatever happened, the file is gone.
C8_ProcessedFileIsRemoved ==
    [][(prunning /\ plist # <<>> /\ plist' # plist) => Head(plist) \notin DOMAIN raw']_vars

\* C9: no raw file is given to detect_events more than once.
C9_FedAtMostOnce == \A b \in DOMAIN fed : fed[b] <= 1

\* C10: a file shorter than the header, or with a wrong magic or version, yields no event
\* file and is gone from the raw directory when the scan that listed it ends.
C10_MalformedFileIsDropped ==
    [][(prunning /\ plist # <<>> /\ plist' # plist) =>
          LET malformed(p) ==
                  /\ p \in DOMAIN raw
                  /\ \/ FileSize(raw[p]) < HEADER_SIZE
                     \/ /\ raw[p].hdr # <<>>
                        /\ \/ raw[p].hdr[1].magic # FILE_MAGIC
                           \/ raw[p].hdr[1].ver # FILE_VERSION
          IN  /\ malformed(Head(plist)) =>
                    (events' = events /\ Head(plist) \notin DOMAIN raw')
              /\ plist' = <<>> =>
                    \A i \in 1..Len(plist) : malformed(plist[i]) => plist[i] \notin DOMAIN raw']_vars

\* C11: the paths of a scan are taken up in non-decreasing order of the start second
\* their names carry.
C11_ScanFollowsTimestamps ==
    \A i \in 1..(Len(plist) - 1) : plist[i].sec <= plist[i + 1].sec

\* C12: a file under a final event name holds exactly the lines of one returned range,
\* end - start + 1 of them, one per sample in index order, and it is there only after
\* a call of write_event_csv in which nothing failed.
C12_EventFileIsComplete ==
    \A e \in DOMAIN events : ~e.tmp =>
        /\ written # <<>> /\ written[1].res = "ok" /\ ~written[1].failing
        /\ LET r == detected[1].ranges[written[1].k]
           IN  /\ e = EventName(DetectBus, DetectAddr, IntOf(r.trigger_ts), FALSE)
               /\ Len(events[e]) = r.end - r.start + 1
               /\ \A j \in 1..Len(events[e]) :
                     events[e][j] = CsvLine(DetectBus, DetectAddr, sent[r.start + j - 1])

\* C12, its case: an event file of several lines is visible, and so is none in the
\* runs where a write failed half way.
C12_EventFilePublished ==
    \E e \in DOMAIN events : ~e.tmp /\ Len(events[e]) >= 2

\* C13: write_event_csv does not raise; when one of its steps fails it returns False,
\* and then there is no file under the event's .dat.tmp name and none under its
\* final name.
C13_WriteEventNeverRaises ==
    written # <<>> =>
        LET r == detected[1].ranges[written[1].k]
        IN  /\ written[1].res # "raise"
            /\ written[1].failing => written[1].res = "fail"
            /\ written[1].res = "fail" =>
                  /\ EventName(DetectBus, DetectAddr, IntOf(r.trigger_ts), TRUE)
                        \notin DOMAIN events
                  /\ EventName(DetectBus, DetectAddr, IntOf(r.trigger_ts), FALSE)
                        \notin DOMAIN events

\* C14: index i is a trigger of detect_events exactly when its magnitude is over
\* ABS_THRESHOLD_G or over REL_MULTIPLIER times rms[i]; every trigger lies in a
\* returned range, and nothing is returned when there is no trigger.
C14_TriggerIffEitherCondition ==
    detected # <<>> =>
        LET d == detected[1]
        IN  /\ \A i \in 1..Len(sent) :
                  (i \in Range(d.triggers)) <=>
                      (\/ OverAbs(MagSq(sent[i]))
                       \/ OverRel(MagSq(sent[i]), d.rms[i]))
            /\ \A t \in Range(d.triggers) :
                  \E k \in 1..Len(d.ranges) : d.ranges[k].start <= t /\ t <= d.ranges[k].end
            /\ (d.triggers = <<>>) <=> (d.ranges = <<>>)

\* C14, its case: a trigger under the absolute threshold (over the relative one
\* alone) next to samples that are no triggers.
C14_RelativeTriggerAlone ==
    /\ detected # <<>>
    /\ \E i \in Range(detected[1].triggers) :
          /\ ~OverAbs(MagSq(sent[i]))
          /\ OverRel(MagSq(sent[i]), detected[1].rms[i])
    /\ \E j \in 1..Len(sent) : j \notin Range(detected[1].triggers)

\* C15: the window of a trigger at index t is [max(first, t - pre_samples),
\* min(last, t + post_samples)], and every returned range lies within the samples,
\* start <= end included.
C15_WindowsAreClipped ==
    detected # <<>> =>
        LET d == detected[1]
            n == Len(sent)
        IN  /\ Len(d.windows) = Len(d.triggers)
            /\ \A k \in 1..Len(d.windows) :
                  /\ d.windows[k].start = Max(1, d.triggers[k] - PRE_EVENT_SEC * d.rate)
                  /\ d.windows[k].end = Min(n, d.triggers[k] + POST_EVENT_SEC * d.rate)
            /\ \A k \in 1..Len(d.ranges) :
                  /\ 1 <= d.ranges[k].start
                  /\ d.ranges[k].start <= d.ranges[k].end
                  /\ d.ranges[k].end <= n

\* C15, its case: triggers at the first and at the last index of several samples,
\* with paddings that reach beyond both.
C15_TriggersAtBothEnds ==
    /\ detected # <<>> /\ detected[1].rate >= 1 /\ Len(sent) >= 2
    /\ 1 \in Range(detected[1].triggers)
    /\ Len(sent) \in Range(detected[1].triggers)

\* C16: the returned ranges are the padded windows merged left to right: a window
\* belongs to the range of the windows before it exactly when its start is at most
\* merge_samples after the largest end among them, and a range ends at the largest
\* end of its windows.
C16_MergeWithinGap ==
    detected # <<>> =>
        LET d == detected[1]
            gap == MERGE_GAP_SEC * d.rate
            In(j, k) == /\ d.ranges[k].start <= d.windows[j].start
                        /\ d.windows[j].end <= d.ranges[k].end
        IN  /\ \A j \in 1..Len(d.windows) : \E k \in 1..Len(d.ranges) : In(j, k)
            /\ \A k \in 1..(Len(d.ranges) - 1) :
                  d.ranges[k + 1].start > d.ranges[k].end + gap
            /\ \A k \in 1..Len(d.ranges) :
                  /\ \E j \in 1..Len(d.windows) :
                        In(j, k) /\ d.windows[j].start = d.ranges[k].start
                  /\ \E j \in 1..Len(d.windows) :
                        In(j, k) /\ d.windows[j].end = d.ranges[k].end
                  /\ \A j \in 1..Len(d.windows) :
                        (In(j, k) /\ d.windows[j].start > d.ranges[k].start) =>
                            \E h \in 1..(j - 1) :
                                /\ In(h, k)
                                /\ d.windows[j].start <= d.windows[h].end + gap

\* C16, its case: two windows one sample further apart than merge_samples stay two
\* ranges (and in other runs two windows exactly merge_samples apart are one).
C16_WindowsJustApart ==
    /\ detected # <<>> /\ detected[1].rate >= 1
    /\ Len(detected[1].ranges) = 2
    /\ detected[1].ranges[2].start
          = detected[1].ranges[1].end + MERGE_GAP_SEC * detected[1].rate + 1

\* C17: the trigger timestamp of every returned range is the timestamp of the
\* lowest-index trigger that the range covers.
C17_RangeKeepsFirstTrigger ==
    detected # <<>> =>
        LET d == detected[1]
        IN  \A k \in 1..Len(d.ranges) :
               LET T == {t \in Range(d.triggers) :
                            d.ranges[k].start <= t /\ t <= d.ranges[k].end}
               IN  /\ T # {}
                   /\ \E t \in T : /\ \A u \in T : t <= u
                                   /\ d.ranges[k].trigger_ts = sent[t][1]

\* C17, its case: a range into which the windows of two triggers were merged.
C17_TwoTriggersInOneRange ==
    /\ detected # <<>>
    /\ Len(detected[1].triggers) = 2
    /\ Len(detected[1].ranges) = 1
    /\ detected[1].ranges[1].trigger_ts # NON_FINITE

\* C18: for every index past the first window, rms[i] squared times window is the sum
\* of the squared magnitudes of the `window` samples before i, and for the indices of
\* the first block rms[i] squared is the mean square of that block.
C18_RmsIsTrailingMeanSquare ==
    detected # <<>> =>
        LET d == detected[1]
            n == Len(sent)
            window == RmsWindow(d.rate)
            init_count == Min(window, n)
        IN  /\ \A i \in 1..init_count :
                  /\ d.rms[i].den = init_count
                  /\ d.rms[i].num = SumSq(sent, 1, init_count)
            /\ \A i \in (window + 1)..n :
                  /\ d.rms[i].den = window
                  /\ d.rms[i].num = SumSq(sent, i - window, i - 1)

\* C18, as the code has it: the same, up to the rounding of the running sum: each of
\* the at most 3 * i operations behind rms[i] rounds to D_MANT_BITS significant bits
\* a value that is at most twice the sum of all the squares taken in so far.
C18_RmsIsTrailingMeanSquareRounded ==
    detected # <<>> =>
        LET d == detected[1]
            n == Len(sent)
            window == RmsWindow(d.rate)
            init_count == Min(window, n)
            Near(x, y, ops, total) ==
                /\ (x - y) * Pow2(D_MANT_BITS - 1) <= ops * total
                /\ (y - x) * Pow2(D_MANT_BITS - 1) <= ops * total
        IN  /\ \A i \in 1..init_count :
                  /\ d.rms[i].den = init_count
                  /\ d.rms[i] = d.rms[1]
                  /\ Near(d.rms[i].num, SumSq(sent, 1, init_count),
                          2 * init_count, SumSq(sent, 1, init_count))
            /\ \A i \in (window + 1)..n :
                  /\ d.rms[i].den = window
                  /\ Near(d.rms[i].num, SumSq(sent, i - window, i - 1),
                          3 * i, SumSq(sent, 1, i - 1))

\* C18, its case: the window has slid, and the running sum is off the exact sum of
\* the trailing window.
C18_SlidingSumHasDrifted ==
    /\ detected # <<>>
    /\ \E i \in (RmsWindow(detected[1].rate) + 2)..Len(sent) :
          /\ detected[1].rms[i].num
                # SumSq(sent, i - RmsWindow(detected[1].rate), i - 1)
          /\ detected[1].rms[i].num # 0

C20_OneSpikeOneEvent ==
    (/\ detected # <<>>
     /\ detected[1].rate >= 1 /\ detected[1].rate % 2 = 0
     /\ sent = Samples(3 * detected[1].rate, {(3 * detected[1].rate) \div 2 + 1},
                       <<0, 0, 10>>, <<153, 0, 0>>, FALSE)) =>
        LET d == detected[1]
            spike == (3 * d.rate) \div 2 + 1
        IN  /\ d.triggers = <<spike>>
            /\ d.ranges = <<[start |-> 1, end |-> 3 * d.rate, trigger_ts |-> sent[spike][1]]>>

\* C20, its case: that signal has been through detect_events.
C20_SpikeInTheMiddle ==
    /\ detected # <<>>
    /\ detected[1].rate >= 1 /\ detected[1].rate % 2 = 0
    /\ sent = Samples(3 * detected[1].rate, {(3 * detected[1].rate) \div 2 + 1},
                      <<0, 0, 10>>, <<153, 0, 0>>, FALSE)
    /\ detected[1].ranges # <<>>

\* ------------------------------------------------------------------ live-stream claims
\* the connections a LiveStream holds attached
Attached(nt) == {i \in 1..Len(nt.conns) : nt.conns[i].st = "attached"}

\* the connection self.client_sock refers to (0: None)
ClientOf(ls) == IF ls = <<>> THEN 0 ELSE ls[1].client_sock

\* C21: at most one client is attached at any time, and it is the one client_sock
\* refers to; a connection accepted while a client is attached receives exactly the
\* line "ERROR: another client is connected\n" and nothing after it, and the step that
\* turns it away leaves the attached client attached, with the lines it has received;
\* a connection is attached only when no client was.
C21_SecondClientIsRefused ==
    [][ /\ Attached(net') = {ClientOf(live_stream')} \ {0}
        /\ \A i \in 1..Len(net.conns) :
             /\ (net.conns[i].st = "pending" /\ net'.conns[i].st = "rejected") =>
                   /\ net'.conns[i].got = <<ERROR_LINE>>
                   /\ ClientOf(live_stream) # 0
                   /\ ClientOf(live_stream') = ClientOf(live_stream)
                   /\ net'.conns[ClientOf(live_stream)] = net.conns[ClientOf(live_stream)]
             /\ (net.conns[i].st = "pending" /\ net'.conns[i].st = "attached") =>
                   ClientOf(live_stream) = 0
             /\ net.conns[i].st = "rejected" => net'.conns[i] = net.conns[i]
      ]_vars

\* a second connection was turned away and the first client has received every sample
\* of every tick, those after the rejection included
C21_ClientKeepsReceiving ==
    /\ Len(net.conns) >= 2
    /\ net.conns[1].st = "attached"
    /\ net.conns[2].st = "rejected"
    /\ phase = "running" /\ tick.i = 0
    /\ loop_count > ACCEPT_CHECK_INTERVAL
    /\ Len(net.conns[1].got) = loop_count * Len(active_sensors)

\* C22: a send_sample that fails (a step of a tick's sensor loop that counts a live-stream
\* failure) detaches the client: client_sock is None after it, the connection is closed
\* and the server socket still listens; and a check_accept that finds a connection
\* waiting while no client is attached, and does not fail, attaches that connection.
C22_FailedSendDropsOnlyTheClient ==
    [][ /\ (tick.i >= 1 /\ net'.drops > net.drops) =>
             /\ ClientOf(live_stream) # 0
             /\ ClientOf(live_stream') = 0
             /\ live_stream'[1].server_sock
             /\ net'.conns[ClientOf(live_stream)].st = "closed"
        /\ ( /\ phase = "running" /\ tick.i = 0 /\ tick'.i = 1
             /\ loop_count % ACCEPT_CHECK_INTERVAL = 0
             /\ live_stream # <<>> /\ ClientOf(live_stream) = 0
             /\ FirstPending(net.conns) # 0
             /\ net'.drops = net.drops ) =>
             /\ ClientOf(live_stream') = FirstPending(net.conns)
             /\ streaming'
      ]_vars

\* the first client was dropped by a failed send, and the next one to connect is
\* attached and has received a sample
C22_NextClientAttached ==
    /\ Len(net.conns) >= 2
    /\ net.conns[1].st = "closed" /\ net.conns[1].got # <<>>
    /\ net.drops = 1
    /\ net.conns[2].st = "attached" /\ net.conns[2].got # <<>>

\* C23: a step in which the live stream fails or turns a peer away (the bind at startup
\* fails, an accept fails, a second client is rejected, a send fails) counts no error,
\* does not raise consecutive_errors and enters neither recovery nor an exit; the tick
\* goes on; and the step of a failed send has written its sample to the sensor's file.
C23_StreamFailuresStayInTheStream ==
    [][ LET bind_failed == phase = "start" /\ phase' = "init" /\ tcp_port # 0
                             /\ live_stream' = <<>>
            turned_away == \E i \in 1..Len(net.conns) :
                              /\ net.conns[i].st \in {"pending", "attached"}
                              /\ net'.conns[i].st \in {"rejected", "aborted", "closed"}
                              /\ phase' # "stopped"
            send_failed == tick.i >= 1 /\ net'.drops > net.drops
            a == active_sensors[tick.i]
            v == read_accel(BusData)
        IN  /\ (bind_failed \/ turned_away) =>
                  /\ error_count' = error_count
                  /\ consecutive_errors' <= consecutive_errors
                  /\ phase' \in {"init", "running"}
            /\ (turned_away /\ tick.i = 0) => tick'.i = 1
            /\ send_failed =>
                  /\ tick'.i = (IF tick.i = Len(active_sensors) THEN 0 ELSE tick.i + 1)
                  /\ \A n \in DOMAIN raw : \A k \in 1..Len(raw[n].recs) :
                        n.addr = a => raw[n].recs[k][1] # tick.ts
                  /\ \E n \in DOMAIN raw' :
                        /\ n.addr = a /\ raw'[n].recs # <<>>
                        /\ raw'[n].recs[Len(raw'[n].recs)] = pack_record(tick.ts, v[1], v[2], v[3])
      ]_vars

\* one client was turned away, the other was dropped by a failed send, and every tick
\* is counted as a success with its samples in the file of each sensor
C23_AllSamplesWritten ==
    /\ Len(net.conns) = 2
    /\ net.conns[1].st = "closed" /\ net.conns[2].st = "rejected"
    /\ phase = "running" /\ tick.i = 0
    /\ error_count = 0 /\ consecutive_errors = 0
    /\ loop_count = 3
    /\ \A i \in 1..Len(active_sensors) :
          \E n \in DOMAIN raw : n.addr = active_sensors[i] /\ Len(raw[n].recs) = loop_count

\* C24: a line reaches the client only in the step of the sensor loop that has written
\* the same sample: the line is the one line of that sample (the timestamp of the tick,
\* the bus, the sensor whose turn it is, the values read), appended to what the client
\* has, and the sample is the last record of a file of that sensor; the lines a client
\* holds follow the ticks and, within a tick, the order of the sensors; when the client
\* is attached and neither the write nor the send fails the line is sent in that step;
\* and a step whose write fails sends nothing.
C24_StreamFollowsTheFile ==
    [][ LET a == active_sensors[tick.i]
            v == read_accel(BusData)
            line == StreamLine(i2c_bus, tick.ts, a, v[1], v[2], v[3])
            Pos(addr) == CHOOSE p \in 1..Len(SENSORS) : SENSORS[p] = addr
            sensor_step == phase = "running" /\ tick.i >= 1 /\ tick' # tick
        IN  /\ \A i \in 1..Len(net.conns) :
                 (net'.conns[i].got # net.conns[i].got /\ net'.conns[i].st # "rejected") =>
                    /\ sensor_step /\ streaming /\ i = ClientOf(live_stream)
                    /\ net'.conns[i].got = Append(net.conns[i].got, line)
                    /\ \E n \in DOMAIN raw' :
                          /\ n.addr = a /\ raw'[n].recs # <<>>
                          /\ raw'[n].recs[Len(raw'[n].recs)] = pack_record(tick.ts, v[1], v[2], v[3])
                    /\ \A k \in 1..Len(net.conns[i].got) :
                          LET was == net.conns[i].got[k]
                          IN  \/ was[1] < line[1]
                              \/ was[1] = line[1] /\ Pos(was[3]) < Pos(a)
            /\ ( /\ sensor_step /\ streaming /\ ClientOf(live_stream) # 0
                 /\ error_count' = error_count /\ net'.drops = net.drops ) =>
                    net'.conns[ClientOf(live_stream)].got =
                        Append(net.conns[ClientOf(live_stream)].got, line)
            /\ (sensor_step /\ error_count' > error_count) => net' = net
      ]_vars

\* the client holds the two lines of a tick of two sensors, in the order of the sensors,
\* and a tick has failed on a file whose header could not be written
C24_BothSensorsStreamed ==
    /\ ClientOf(live_stream) = 1
    /\ \E k \in 1..(Len(net.conns[1].got) - 1) :
          /\ net.conns[1].got[k][1] = net.conns[1].got[k + 1][1]
          /\ net.conns[1].got[k][3] = SENSORS[1]
          /\ net.conns[1].got[k + 1][3] = SENSORS[2]
    /\ error_count = 1 /\ faults = 1
    /\ \E n \in DOMAIN raw : raw[n].hdr = <<>>

\* ------------------------------------------------------------------ supervisor claims
\* C25: when the Collector has stopped on a termination signal, in whatever state the
\* signal found it, no SensorFile has an open handle, the server socket of the live
\* stream, if it was started, is closed, and the bus handle, if one is held, is closed.
C25_StoppedAfterShuttingDown ==
    phase = "stopped" =>
        /\ \A a \in DOMAIN sensor_files : ~sensor_files[a].fd
        /\ live_stream # <<>> => ~live_stream[1].server_sock
        /\ smbus.closed = smbus.opened

C27_PingEveryInterval == phase = "running" => since_ping < WATCHDOG_INTERVAL

\* C28: recovery is entered by a failed tick that finds consecutive_errors one short of
\* MAX_CONSECUTIVE_ERRORS, by every such tick, and by no other step: a failed tick that
\* finds the counter lower stays in Running.
C28_RecoverAtTheThreshold ==
    [][ LET failed_tick == phase = "running" /\ error_count' = error_count + 1
        IN  /\ (phase # "recovering" /\ phase' = "recovering") =>
                  failed_tick /\ consecutive_errors = MAX_CONSECUTIVE_ERRORS - 1
            /\ (failed_tick /\ consecutive_errors = MAX_CONSECUTIVE_ERRORS - 1) =>
                  phase' = "recovering"
            /\ (failed_tick /\ consecutive_errors < MAX_CONSECUTIVE_ERRORS - 1) =>
                  phase' = "running"
      ]_vars

\* recovery has just been entered, after at least one successful tick and with more
\* errors counted than a recovery takes: not every error led to it
C28_RecoveryEntered ==
    /\ phase = "recovering"
    /\ loop_count >= 1
    /\ error_count = MAX_CONSECUTIVE_ERRORS + 1
    /\ active_sensors # <<>>

\* C29: consecutive_errors stays within 0..MAX_CONSECUTIVE_ERRORS; it is 0 after a
\* successful tick and when recovery is entered; a failed tick that does not enter
\* recovery raises it by exactly 1; no other step changes it.
C29_ConsecutiveErrorsCounter ==
    [][ LET failed_tick == phase = "running" /\ error_count' = error_count + 1
            good_tick == loop_count' = loop_count + 1
        IN  /\ consecutive_errors' \in 0..MAX_CONSECUTIVE_ERRORS
            /\ good_tick => consecutive_errors' = 0
            /\ phase' = "recovering" => consecutive_errors' = 0
            /\ (failed_tick /\ phase' # "recovering") =>
                  consecutive_errors' = consecutive_errors + 1
            /\ (~failed_tick /\ ~good_tick) => consecutive_errors' = consecutive_errors
      ]_vars

\* a tick failed on the header of its file, and a later tick succeeded and reset the
\* counter
C29_ResetBySuccess ==
    /\ phase = "running" /\ tick.i = 0
    /\ consecutive_errors = 0
    /\ error_count = 1 /\ loop_count >= 1
    /\ \E n \in DOMAIN raw : raw[n].hdr = <<>>

\* C30: the step that takes the Collector from Recovering back to Running leaves it with
\* a bus handle opened in that step and every earlier handle closed; every SensorFile
\* that had a file open has no handle any more and its file carries its final name
\* (or, when the seal failed in that step, is closed under its temporary name); and
\* sensor_files holds a fresh SensorFile, with no file yet, for exactly the sensors
\* the probe found.
C30_RecoveryRenewsBusAndFiles ==
    [][ (phase = "recovering" /\ phase' = "running") =>
          /\ smbus'.opened = smbus.opened + 1
          /\ smbus'.cur = smbus'.opened
          /\ smbus'.closed = smbus'.opened - 1
          /\ \A a \in DOMAIN sensor_files :
                sensor_files[a].fd =>
                   \/ /\ sensor_files[a].final_path[1] \in DOMAIN raw'
                      /\ sensor_files[a].tmp_path[1] \notin DOMAIN raw'
                   \/ /\ faults' > faults
                      /\ sensor_files[a].tmp_path[1] \in DOMAIN raw'
          /\ active_sensors' # <<>>
          /\ DOMAIN sensor_files' = {active_sensors'[i] : i \in 1..Len(active_sensors')}
          /\ \A a \in DOMAIN sensor_files' : sensor_files'[a] = SensorFile(a)
      ]_vars

\* back in Running after a recovery that found another set of sensors: the file of the
\* sensor that is gone is sealed, with the records written before the failures, and
\* the sensor found has a fresh SensorFile
C30_BackWithOtherSensors ==
    /\ phase = "running" /\ tick.i = 0
    /\ error_count >= MAX_CONSECUTIVE_ERRORS
    /\ smbus.opened >= 2 /\ smbus.closed = smbus.opened - 1
    /\ \E n \in DOMAIN raw :
          /\ ~n.tmp /\ raw[n].recs # <<>>
          /\ n.addr \notin DOMAIN sensor_files
    /\ \A a \in DOMAIN sensor_files : sensor_files[a] = SensorFile(a)
    /\ DOMAIN sensor_files # {}

\* ------------------------------------------------------------------ file and tick claims
\* C33: in a write_sample that succeeds, when its seal has run (the file left its
\* temporary name, or the seal failed) the SensorFile holds no handle; and when the
\* SensorFile held no handle before, the write has opened a fresh file named after this
\* tick, which begins with its own header and this sample, and a temporary file
\* abandoned under another name is left as it was (the seal is not tried again).
C33_SealDropsTheHandle ==
    [][ (phase = "running" /\ tick.i >= 1 /\ tick' # tick /\ error_count' = error_count) =>
          LET a == active_sensors[tick.i]
              v == read_accel(BusData)
              old == sensor_files[a]
              new == sensor_files'[a]
              tmp == FileName(i2c_bus, a, IntOf(tick.ts), TRUE)
              fin == FileName(i2c_bus, a, IntOf(tick.ts), FALSE)
              sealed == faults' > faults \/ new.tmp_path[1] \notin DOMAIN raw'
          IN  /\ sealed => ~new.fd
              /\ ~old.fd =>
                    /\ new.tmp_path = <<tmp>>
                    /\ \E n \in {tmp, fin} \cap DOMAIN raw' :
                          /\ raw'[n].hdr = <<pack_header(i2c_bus, a, tick.ts)>>
                          /\ raw'[n].recs = <<pack_record(tick.ts, v[1], v[2], v[3])>>
                    /\ (old.tmp_path # <<>> /\ old.tmp_path # <<tmp>>) =>
                          \A n \in {old.tmp_path[1]} \cap DOMAIN raw :
                              n \in DOMAIN raw' /\ raw'[n] = raw[n]
      ]_vars

\* a seal has failed and left its file under the temporary name, and the sensor writes
\* to a fresh file
C33_FreshFileAfterFailedSeal ==
    /\ faults > 0 /\ error_count = 0
    /\ \E a \in DOMAIN sensor_files :
          /\ sensor_files[a].fd
          /\ sensor_files[a].tmp_path[1] \in DOMAIN raw
          /\ \E n \in DOMAIN raw :
                /\ n.tmp /\ n.addr = a /\ n # sensor_files[a].tmp_path[1]
                /\ raw[n].recs # <<>>

\* C34: a tick that fails on the open file of a sensor (its header or a record could not
\* be written) leaves that SensorFile without a handle and does not count towards
\* recovery: consecutive_errors is as before and recovery is not entered.
C34_FileErrorIsNotASensorError ==
    [][ ( /\ phase = "running" /\ tick.i >= 1
          /\ faults' > faults /\ error_count' > error_count
          /\ sensor_files'[active_sensors[tick.i]].tmp_path[1] \in DOMAIN raw' ) =>
            /\ ~sensor_files'[active_sensors[tick.i]].fd
            /\ consecutive_errors' = consecutive_errors
            /\ phase' = "running"
      ]_vars

\* C35: a tick that begins while the loop has not fallen behind its deadline (the time
\* is not past next_sample_time when the loop goes to sleep) moves the deadline by
\* exactly SAMPLE_INTERVAL, however late the loop wakes up.
C35_DeadlineAccumulates ==
    [][ ( /\ phase = "running" /\ tick.i = 0 /\ tick'.i = 1
          /\ clock <= next_sample_time ) =>
            next_sample_time' = next_sample_time + SAMPLE_INTERVAL
      ]_vars


\* ------------------------------------------------------------------ detection, events
\* C36: the ranges detect_events returns are in ascending order of start, every range
\* starts more than merge_samples after the end of the range before it (so no two
\* overlap), and every trigger index lies in exactly one range.
C36_RangesPartitionTheTriggers ==
    detected # <<>> =>
        LET d == detected[1]
            r == d.ranges
            Holds(k, t) == r[k].start <= t /\ t <= r[k].end
        IN  /\ \A j, k \in 1..Len(r) :
                  j < k => /\ r[j].start < r[k].start
                           /\ r[j].end + MERGE_GAP_SEC * d.rate < r[k].start
            /\ \A h \in 1..Len(d.triggers) :
                  Cardinality({k \in 1..Len(r) : Holds(k, d.triggers[h])}) = 1
            /\ (d.triggers = <<>>) = (r = <<>>)

\* C36, its case: two triggers whose padded windows are far enough apart, each in a
\* range of its own that holds the samples around it.
C36_TwoTriggersTwoRanges ==
    /\ detected # <<>> /\ detected[1].rate >= 1
    /\ Len(detected[1].triggers) = 2 /\ Len(detected[1].ranges) = 2
    /\ detected[1].triggers[1] < detected[1].ranges[1].end
    /\ detected[1].ranges[2].start < detected[1].triggers[2]


\* C37: distinct events of the same sensor get distinct event file names, so that
\* writing an event never replaces an event file written before: an event file under
\* its final name keeps its lines for good.
C37_EventFilesAreNeverReplaced ==
    [][ \A n \in DOMAIN events :
           ~n.tmp => n \in DOMAIN events' /\ events'[n] = events[n] ]_vars


\* C38: as long as no file operation has failed, every write_sample call (a step of
\* the sensor loop that is not a failed read: it advances the tick or touches a file)
\* puts exactly its sample into the files of its sensor and no other step adds,
\* removes or repeats a record; once the Collector has stopped, the files of a sensor are all sealed, hold
\* their records in the order of the timestamps, and a file begun earlier holds the
\* earlier records.
C38_SealedFilesHoldTheSamplesWritten ==
    [][ faults' = 0 =>
          LET Of(rw, a) == {n \in DOMAIN rw : n.addr = a}
              Slots(rw, a) == {<<n, i>> : n \in Of(rw, a), i \in 1..MaxSamples}
              Places(rw, a) == {p \in Slots(rw, a) : p[2] <= Len(rw[p[1]].recs)}
              Stored(rw, a) == {rw[p[1]].recs[p[2]] : p \in Places(rw, a)}
              v == read_accel(BusData)
              writes(a) == /\ phase = "running" /\ tick.i >= 1 /\ tick' # tick
                           /\ error_count' = error_count \/ raw' # raw
                           /\ active_sensors[tick.i] = a
          IN  \A a \in Range(SENSORS) :
                /\ Stored(raw', a) = Stored(raw, a) \cup
                       (IF writes(a) THEN {pack_record(tick.ts, v[1], v[2], v[3])} ELSE {})
                /\ Cardinality(Places(raw', a)) = Cardinality(Places(raw, a))
                       + (IF writes(a) THEN 1 ELSE 0)
                /\ Cardinality(Stored(raw', a)) = Cardinality(Places(raw', a))
                /\ phase' = "stopped" =>
                      \A n \in Of(raw', a) :
                         /\ ~n.tmp
                         /\ Len(raw'[n].hdr) = 1
                         /\ \A i \in 1..(Len(raw'[n].recs) - 1) :
                               raw'[n].recs[i][1] < raw'[n].recs[i + 1][1]
                         /\ \A m \in Of(raw', a) :
                               m.sec < n.sec =>
                                  \A i \in 1..Len(raw'[m].recs), j \in 1..Len(raw'[n].recs) :
                                     raw'[m].recs[i][1] < raw'[n].recs[j][1]
      ]_vars


\* C39: a tick in which the read of a sensor fails leaves no record of that tick in
\* the file of any sensor.
C39_FailedTickWritesNothing ==
    [][ ( /\ phase = "running" /\ tick.i >= 1
          /\ error_count' > error_count /\ raw' = raw ) =>
            \A n \in DOMAIN raw' : \A i \in 1..Len(raw'[n].recs) :
               raw'[n].recs[i][1] # pack_record(tick.ts, 0, 0, 0)[1]
      ]_vars


\* ------------------------------------------------------------------ progress
\* C32: once a signal has arrived in the init loop, in the sampling loop (the cooldown
\* after a failed tick included) or in recover, the Collector ends up stopped.
C32_SignalLeadsToStopped ==
    (~running /\ phase \in {"init", "running", "recovering"}) ~> (phase = "stopped")

\* C32, its case: stopped by a signal that arrived in recover's loop, after failed
\* ticks and a probe that found no sensor.
C32_StoppedInRecover ==
    /\ phase = "stopped" /\ ~running
    /\ loop_count >= 1 /\ active_sensors = <<>>
    /\ error_count > MAX_CONSECUTIVE_ERRORS


\* C31: while no signal has arrived, the init loop and recover's loop are left only
\* into Running and only with a sensor that answered (a probe that finds none leaves
\* the Collector where it is, to probe again), and when the sensors do answer in the
\* end the Collector gets to Running.
C31_ProbesUntilASensorAnswers ==
    /\ [][ (running /\ phase \in {"init", "recovering"}) =>
              \/ phase' = phase
              \/ phase' = "running" /\ active_sensors' # <<>> ]_vars
    /\ (running /\ phase \in {"init", "recovering"}) ~> (phase = "running" \/ ~running)

\* C31, its case: still in Recovering, and not stopped, after a probe of recover's loop
\* that found no sensor.
C31_StillRecovering ==
    /\ phase = "recovering" /\ running
    /\ loop_count >= 1 /\ active_sensors = <<>>
    /\ error_count > MAX_CONSECUTIVE_ERRORS

\* C40: when one of two active sensors has stopped answering for good, the Collector
\* takes exactly MAX_CONSECUTIVE_ERRORS failed ticks, leaves recover at its first probe
\* with the other sensor alone in the active set, and every tick it then begins puts
\* that sensor's sample into its file; unless a signal comes first, it gets there.
C40_DeadSensorIsDropped ==
    /\ [][ (Dead(env.dead) /\ running /\ phase = "recovering") =>
              \/ phase' = phase /\ active_sensors' = active_sensors
              \/ /\ phase' = "running"
                 /\ active_sensors' = SelectSeq(SENSORS, LAMBDA a : a # env.dead)
                 /\ error_count' = MAX_CONSECUTIVE_ERRORS ]_vars
    /\ (Dead(env.dead) /\ phase = "running" /\ Len(active_sensors) = 2)
          ~> ( \/ ~running
               \/ /\ phase = "running" /\ Dead(env.dead)
                  /\ active_sensors = SelectSeq(SENSORS, LAMBDA a : a # env.dead) )
    /\ ( /\ phase = "running" /\ Dead(env.dead) /\ tick.i = 1
         /\ active_sensors = SelectSeq(SENSORS, LAMBDA a : a # env.dead) )
          ~> ( /\ phase = "running" /\ tick.i = 0 /\ consecutive_errors = 0
               /\ \E n \in DOMAIN raw :
                     /\ n.addr # env.dead /\ raw[n].recs # <<>>
                     /\ raw[n].recs[Len(raw[n].recs)][1] = pack_record(tick.ts, 0, 0, 0)[1] )

\* C40, its case: after the recovery, a tick with the remaining sensor alone has
\* been written.
C40_RunningWithTheOtherSensor ==
    /\ phase = "running" /\ Dead(env.dead) /\ tick.i = 0
    /\ active_sensors = SelectSeq(SENSORS, LAMBDA a : a # env.dead)
    /\ error_count = MAX_CONSECUTIVE_ERRORS /\ loop_count >= 2
====
